---- MODULE Spec2Model ----
(***************************************************************************)
(* Model of the in-memory cache (src/cache/in-memory): the index set of    *)
(* InMemoryCacheRef, the cache_* helpers of lib.rs and the per-event       *)
(* handlers of updates.rs.  One event is applied per step; every handler   *)
(* is one action.                                                          *)
(***************************************************************************)
EXTENDS Integers, FiniteSets, Sequences, TLC

\* Option::None; identifiers start at 1
None == 0

(* ------------------------------ bounds -------------------------------- *)
\* message specification
NumMsgChannels == 2
NumMessages == 3
NumContents == 2
MaxCap == 2
MaxBulk == 2
\* voice specifications
NumVoiceGuilds == 2
NumVoiceUsers == 2
NumVoiceChannels == 3
MaxVoiceStates == 3
\* availability specification
NumAvailGuilds == 3
NumNames == 2
MaxReadyGuilds == 2
\* channel specification
NumChanGuilds == 2
NumChanChannels == 2
MaxChanChildren == 2
\* item specification (roles, emojis, members, presences, users)
NumItemGuilds == 2
NumItemUsers == 1
NumItemRoles == 1
NumItemEmojis == 1
NumUserNames == 2
MaxItemChildren == 1
MaxVoiceChildren == 1
NumFilterIds == 1
MaxReactionCount == 2
MaxHandles == 1
NumReactEmojis == 2
\* threads that call into the cache at once
NumThreads == 2

(* ------------------------------ state --------------------------------- *)
VARIABLES
    config,                 \* Config { event_types, message_cache_size }
    channels_guild,         \* ChannelId -> GuildItem<GuildChannel>
    channels_private,       \* ChannelId -> PrivateChannel
    current_user,           \* Option<CurrentUser>: << >> or <<user>>
    emojis,                 \* EmojiId -> GuildItem<CachedEmoji>
    groups,                 \* ChannelId -> Group
    guilds,                 \* GuildId -> CachedGuild
    guild_channels,         \* GuildId -> set of ChannelId
    guild_emojis,           \* GuildId -> set of EmojiId
    guild_members,          \* GuildId -> set of UserId
    guild_presences,        \* GuildId -> set of UserId
    guild_roles,            \* GuildId -> set of RoleId
    members,                \* <<GuildId, UserId>> -> CachedMember
    messages,               \* ChannelId -> (MessageId -> CachedMessage)
    presences,              \* <<GuildId, UserId>> -> CachedPresence
    roles,                  \* RoleId -> GuildItem<Role>
    unavailable_guilds,     \* set of GuildId
    users,                  \* UserId -> (User, set of GuildId)
    voice_state_channels,   \* ChannelId -> set of <<GuildId, UserId>>
    voice_state_guilds,     \* GuildId -> set of UserId
    voice_states,           \* <<GuildId, UserId>> -> VoiceState
    last_event,             \* observer: the event applied by the last step
    created,                \* observer: per channel, the ids created so far
    heap,                   \* Arc cells: address -> [v, strong]
    arc_of,                 \* slot of an index -> the address of the Arc it stores
    handles,                \* the handles readers hold: id -> [slot, addr, seen]
    last_input,             \* observer: the input of the event last_event names
    pc,                     \* thread -> the statement it is at, "idle" between calls
    frame,                  \* thread -> the arguments and locals of its call
    held                    \* thread -> the guards it holds: <<map, key, mode>>

cacheVars == <<channels_guild, channels_private, current_user, emojis, groups,
               guilds, guild_channels, guild_emojis, guild_members,
               guild_presences, guild_roles, members, messages, presences,
               roles, unavailable_guilds, users, voice_state_channels,
               voice_state_guilds, voice_states>>

heapVars == <<heap, arc_of, handles>>

auxVars == <<heapVars, last_input>>

threadVars == <<pc, frame, held>>

vars == <<config, cacheVars, last_event, created, auxVars, threadVars>>

Threads == 1..NumThreads

\* the arguments and locals of the calls a thread makes, unset
NoFrame ==
    [vs |-> [guild_id |-> 0, channel_id |-> 0, user_id |-> 0],
     private_channel |-> [id |-> 0, name |-> 0, last_pin_timestamp |-> 0],
     user |-> [id |-> 0, name |-> 0],
     reaction |-> [channel_id |-> 0, message_id |-> 0, emoji |-> 0, user_id |-> 0],
     guild |-> [id |-> 0, name |-> 0, channels |-> << >>, emojis |-> << >>,
                members |-> << >>, presences |-> << >>, roles |-> << >>,
                voice_states |-> << >>],
     id |-> 0, old |-> 0, key |-> <<0, 0>>, todo |-> {}, current_user |-> << >>]

(* --------------------------- map primitives --------------------------- *)
EmptyMap == << >>

Put(m, k, v) == [x \in (DOMAIN m) \cup {k} |-> IF x = k THEN v ELSE m[x]]

Del(m, k) == [x \in (DOMAIN m) \ {k} |-> m[x]]

DelAll(m, ks) == [x \in (DOMAIN m) \ ks |-> m[x]]

\* DashMap::entry(k).or_default() for a map of sets; then insert(x)
EntryInsert(m, k, x) == Put(m, k, (IF k \in DOMAIN m THEN m[k] ELSE {}) \cup {x})

\* get_mut(k).map(|s| s.remove(x)): no entry is created
GetMutRemove(m, k, x) == IF k \in DOMAIN m THEN Put(m, k, m[k] \ {x}) ELSE m

SetMax(S) == CHOOSE x \in S : \A y \in S : y <= x

(* ------------------------------ config -------------------------------- *)
\* The categories of EventType, and the one the ChannelPinsUpdate handler names
EventTypeAll ==
    {"BAN_ADD", "BAN_REMOVE", "CHANNEL_CREATE", "CHANNEL_DELETE",
     "CHANNEL_UPDATE", "GUILD_CREATE", "GUILD_DELETE", "GUILD_EMOJIS_UPDATE",
     "GUILD_INTEGRATIONS_UPDATE", "GUILD_UPDATE", "MEMBER_ADD", "MEMBER_CHUNK",
     "MEMBER_REMOVE", "MEMBER_UPDATE", "MESSAGE_CREATE", "MESSAGE_DELETE",
     "MESSAGE_DELETE_BULK", "MESSAGE_UPDATE", "PRESENCE_UPDATE", "REACTION_ADD",
     "REACTION_REMOVE", "REACTION_REMOVE_ALL", "READY", "ROLE_CREATE",
     "ROLE_DELETE", "ROLE_UPDATE", "TYPING_START", "UNAVAILABLE_GUILD",
     "UPDATE_VOICE_STATE", "USER_UPDATE", "VOICE_SERVER_UPDATE",
     "VOICE_STATE_UPDATE", "WEBHOOK_UPDATE", "CHANNEL_PINS_UPDATE"}

\* a faulty containment check that lets every category through
guard_any(event_type) == TRUE

\* this.0.config.event_types().contains(event_type)
guard(event_type) == event_type \in config.event_types

(* --------------------------- state records ---------------------------- *)
\* The indices of InMemoryCacheRef as one value, threaded through the helpers
Cache ==
    [channels_guild |-> channels_guild, channels_private |-> channels_private,
     current_user |-> current_user, emojis |-> emojis, groups |-> groups,
     guilds |-> guilds, guild_channels |-> guild_channels,
     guild_emojis |-> guild_emojis, guild_members |-> guild_members,
     guild_presences |-> guild_presences, guild_roles |-> guild_roles,
     members |-> members, messages |-> messages, presences |-> presences,
     roles |-> roles, unavailable_guilds |-> unavailable_guilds,
     users |-> users, voice_state_channels |-> voice_state_channels,
     voice_state_guilds |-> voice_state_guilds, voice_states |-> voice_states]

\* The indices become those of s; the config never changes
Indices(s) ==
    /\ channels_guild' = s.channels_guild
    /\ channels_private' = s.channels_private
    /\ current_user' = s.current_user
    /\ emojis' = s.emojis
    /\ groups' = s.groups
    /\ guilds' = s.guilds
    /\ guild_channels' = s.guild_channels
    /\ guild_emojis' = s.guild_emojis
    /\ guild_members' = s.guild_members
    /\ guild_presences' = s.guild_presences
    /\ guild_roles' = s.guild_roles
    /\ members' = s.members
    /\ messages' = s.messages
    /\ presences' = s.presences
    /\ roles' = s.roles
    /\ unavailable_guilds' = s.unavailable_guilds
    /\ users' = s.users
    /\ voice_state_channels' = s.voice_state_channels
    /\ voice_state_guilds' = s.voice_state_guilds
    /\ voice_states' = s.voice_states
    /\ config' = config

\* The effect of a handler that runs alone, from its call to its return
Install(s) == Indices(s) /\ UNCHANGED threadVars

\* A handler: the containment check first, then the body
Handle(event_type, s) ==
    IF guard(event_type) THEN Install(s) ELSE Install(Cache)

\* InMemoryCacheRef::default(): every index empty, no current user
InitCache ==
    /\ channels_guild = EmptyMap
    /\ channels_private = EmptyMap
    /\ current_user = << >>
    /\ emojis = EmptyMap
    /\ groups = EmptyMap
    /\ guilds = EmptyMap
    /\ guild_channels = EmptyMap
    /\ guild_emojis = EmptyMap
    /\ guild_members = EmptyMap
    /\ guild_presences = EmptyMap
    /\ guild_roles = EmptyMap
    /\ members = EmptyMap
    /\ messages = EmptyMap
    /\ presences = EmptyMap
    /\ roles = EmptyMap
    /\ unavailable_guilds = {}
    /\ users = EmptyMap
    /\ voice_state_channels = EmptyMap
    /\ voice_state_guilds = EmptyMap
    /\ voice_states = EmptyMap
    /\ last_event = "none"
    /\ created = EmptyMap
    /\ heap = EmptyMap
    /\ arc_of = EmptyMap
    /\ handles = EmptyMap
    /\ last_input = EmptyMap
    /\ pc = [t \in Threads |-> "idle"]
    /\ frame = [t \in Threads |-> NoFrame]
    /\ held = [t \in Threads |-> {}]

(* ------------------------------ messages ------------------------------ *)
\* CachedMessage: the fields the handlers overlay
Message(id, c, content) ==
    [id |-> id, channel_id |-> c, content |-> content, reactions |-> << >>]

\* channel.iter().next_back(): the entry with the largest key
next_back(channel) == SetMax(DOMAIN channel)

\* cache.0.messages.entry(channel_id).or_default()
messages_entry(s, c) == IF c \in DOMAIN s.messages THEN s.messages[c] ELSE EmptyMap

\* the eviction test of MessageCreate
cache_is_full(channel) == Cardinality(DOMAIN channel) > config.message_cache_size

message_create(s, msg) ==
    LET channel == messages_entry(s, msg.channel_id)
        evicted == IF cache_is_full(channel) /\ DOMAIN channel # {}
                   THEN Del(channel, next_back(channel))
                   ELSE channel
    IN [s EXCEPT !.messages = Put(s.messages, msg.channel_id, Put(evicted, msg.id, msg))]

MessageCreate(msg) == Handle("MESSAGE_CREATE", message_create(Cache, msg))

message_delete(s, c, id) ==
    [s EXCEPT !.messages = Put(s.messages, c, Del(messages_entry(s, c), id))]

MessageDelete(c, id) == Handle("MESSAGE_DELETE", message_delete(Cache, c, id))

message_delete_bulk(s, c, ids) ==
    [s EXCEPT !.messages = Put(s.messages, c, DelAll(messages_entry(s, c), ids))]

MessageDeleteBulk(c, ids) == Handle("MESSAGE_DELETE_BULK", message_delete_bulk(Cache, c, ids))

\* content: None leaves the stored content, Some(x) replaces it
message_update(s, c, id, content) ==
    LET channel == messages_entry(s, c)
        updated == IF id \in DOMAIN channel /\ content # None
                   THEN Put(channel, id, [channel[id] EXCEPT !.content = content])
                   ELSE channel
    IN [s EXCEPT !.messages = Put(s.messages, c, updated)]

MessageUpdate(c, id, content) == Handle("MESSAGE_UPDATE", message_update(Cache, c, id, content))

(* ------------------------------ entities ------------------------------ *)
User(id, name) == [id |-> id, name |-> name]

Member(user, nick) == [user |-> user, nick |-> nick]

Presence(user_id, status) == [user_id |-> user_id, status |-> status]

Role(id, name) == [id |-> id, name |-> name]

\* user: Option<User>, << >> for None and <<u>> for Some(u)
Emoji(id, name, user) == [id |-> id, name |-> name, user |-> user]

\* kind: "Text" | "Voice" | "Category"; guild_id: Option<GuildId>
GuildChannel(id, guild_id, kind, name) ==
    [id |-> id, guild_id |-> guild_id, kind |-> kind, name |-> name,
     last_pin_timestamp |-> None]

PrivateChannel(id, name) == [id |-> id, name |-> name, last_pin_timestamp |-> None]

Group(id, name) == [id |-> id, name |-> name, last_pin_timestamp |-> None]

\* guild_id, channel_id: Option
VoiceState(guild_id, channel_id, user_id) ==
    [guild_id |-> guild_id, channel_id |-> channel_id, user_id |-> user_id]

\* The Guild of a GuildCreate or Ready payload; the children are sequences in
\* the payload's iteration order
Guild(id, name, chs, ems, mems, pres, rls, vss) ==
    [id |-> id, name |-> name, channels |-> chs, emojis |-> ems, members |-> mems,
     presences |-> pres, roles |-> rls, voice_states |-> vss]

(* --------------------------- upsert helpers --------------------------- *)
GuildItem(data, guild_id) == [data |-> data, guild_id |-> guild_id]

\* an upsert that always writes the entry, with the guild_id of the call
upsert_guild_item_rewrite(map, guild_id, k, v) == Put(map, k, GuildItem(v, guild_id))

upsert_guild_item(map, guild_id, k, v) ==
    IF k \in DOMAIN map /\ map[k].data = v
    THEN map
    ELSE Put(map, k, GuildItem(v, guild_id))

upsert_item(map, k, v) ==
    IF k \in DOMAIN map /\ map[k] = v THEN map ELSE Put(map, k, v)

(* ------------------------- lib.rs: cache_* ---------------------------- *)
cache_current_user(s, user) == [s EXCEPT !.current_user = <<user>>]

\* a faulty variant that stores the channel as it came
cache_guild_channel_asis(s, guild_id, channel) ==
    [s EXCEPT !.guild_channels = EntryInsert(s.guild_channels, guild_id, channel.id),
              !.channels_guild = upsert_guild_item(s.channels_guild, guild_id, channel.id, channel)]

cache_guild_channel(s, guild_id, channel) ==
    LET c == [channel EXCEPT !.guild_id = guild_id]
    IN [s EXCEPT !.guild_channels = EntryInsert(s.guild_channels, guild_id, c.id),
                 !.channels_guild = upsert_guild_item(s.channels_guild, guild_id, c.id, c)]

RECURSIVE cache_guild_channels(_, _, _)
cache_guild_channels(s, guild_id, chs) ==
    IF chs = << >> THEN s
    ELSE cache_guild_channels(cache_guild_channel(s, guild_id, Head(chs)), guild_id, Tail(chs))

cache_user(s, user, guild_id) ==
    IF user.id \in DOMAIN s.users /\ s.users[user.id].user = user
    THEN [s EXCEPT !.users = Put(s.users, user.id,
              [user |-> user, guilds |-> s.users[user.id].guilds \cup {guild_id}])]
    ELSE [s EXCEPT !.users = Put(s.users, user.id, [user |-> user, guilds |-> {guild_id}])]

\* impl PartialEq<Emoji> for CachedEmoji
emoji_eq(cached, emoji) ==
    /\ cached.id = emoji.id
    /\ cached.name = emoji.name
    /\ cached.user_id = (IF emoji.user = << >> THEN None ELSE emoji.user[1].id)

cache_emoji(s, guild_id, emoji) ==
    IF emoji.id \in DOMAIN s.emojis /\ emoji_eq(s.emojis[emoji.id].data, emoji)
    THEN s
    ELSE LET s1 == IF emoji.user # << >> THEN cache_user(s, emoji.user[1], guild_id) ELSE s
             cached == [id |-> emoji.id, name |-> emoji.name,
                        user_id |-> IF emoji.user = << >> THEN None ELSE emoji.user[1].id]
         IN [s1 EXCEPT !.emojis = Put(s1.emojis, emoji.id, GuildItem(cached, guild_id))]

RECURSIVE cache_emojis(_, _, _)
cache_emojis(s, guild_id, ems) ==
    IF ems = << >> THEN s
    ELSE cache_emojis(cache_emoji(s, guild_id, Head(ems)), guild_id, Tail(ems))

\* impl PartialEq<Member> for CachedMember
member_eq(cached, member) ==
    cached.nick = member.nick /\ cached.user = member.user

cache_member(s, guild_id, member) ==
    LET id == <<guild_id, member.user.id>>
    IN IF id \in DOMAIN s.members /\ member_eq(s.members[id], member)
       THEN s
       ELSE LET s1 == cache_user(s, member.user, guild_id)
                cached == [guild_id |-> guild_id, nick |-> member.nick, user |-> member.user]
            IN [s1 EXCEPT !.members = Put(s1.members, id, cached)]

RECURSIVE cache_members(_, _, _)
cache_members(s, guild_id, mems) ==
    IF mems = << >> THEN s
    ELSE cache_members(cache_member(s, guild_id, Head(mems)), guild_id, Tail(mems))

\* impl PartialEq<Presence> for CachedPresence
presence_eq(cached, presence) ==
    cached.user_id = presence.user_id /\ cached.status = presence.status

cache_presence(s, guild_id, presence) ==
    LET k == <<guild_id, presence.user_id>>
    IN IF k \in DOMAIN s.presences /\ presence_eq(s.presences[k], presence)
       THEN s
       ELSE [s EXCEPT !.presences = Put(s.presences, k,
                [guild_id |-> guild_id, user_id |-> presence.user_id,
                 status |-> presence.status])]

RECURSIVE cache_presences(_, _, _)
cache_presences(s, guild_id, pres) ==
    IF pres = << >> THEN s
    ELSE cache_presences(cache_presence(s, guild_id, Head(pres)), guild_id, Tail(pres))

\* cache_private_channel inserts inside the match on channels_private.get(&id):
\* in the arm Some(_) the scrutinee's Ref still holds the read lock of the
\* shard, the insert waits for its write lock, and the call never returns
private_channel_blocks(s, private_channel) ==
    /\ private_channel.id \in DOMAIN s.channels_private
    /\ s.channels_private[private_channel.id] # private_channel

channel_blocks(s, channel) ==
    channel.variant = "Private" /\ private_channel_blocks(s, channel.c)

\* the value of a call that returns
cache_private_channel(s, private_channel) ==
    LET id == private_channel.id
    IN IF id \in DOMAIN s.channels_private /\ s.channels_private[id] = private_channel
       THEN s
       ELSE [s EXCEPT !.channels_private = Put(s.channels_private, id, private_channel)]

cache_group(s, group) == [s EXCEPT !.groups = upsert_item(s.groups, group.id, group)]

cache_role(s, guild_id, role) ==
    [s EXCEPT !.roles = upsert_guild_item(s.roles, guild_id, role.id, role)]

RECURSIVE cache_roles(_, _, _)
cache_roles(s, guild_id, rls) ==
    IF rls = << >> THEN s
    ELSE cache_roles(cache_role(s, guild_id, Head(rls)), guild_id, Tail(rls))

(* ---------------------- lib.rs: cache_voice_state --------------------- *)
\* a faulty removal that leaves the emptied set under its key
RemoveKeepEmpty(m, k, x) == IF k \in DOMAIN m THEN Put(m, k, m[k] \ {x}) ELSE m

\* get_mut(k).map(|set| { set.remove(x); set.is_empty() }) and the removal
\* of the key when the set became empty
RemoveAndCleanup(m, k, x) ==
    IF k \in DOMAIN m
    THEN IF m[k] \ {x} = {} THEN Del(m, k) ELSE Put(m, k, m[k] \ {x})
    ELSE m

\* lines 741-758: the user already has a state: leave its channel's set
\* a faulty variant that leaves the pair listed under its old channel
voice_leave_channel_skip(s, guild_id, user_id) == s

voice_leave_channel(s, guild_id, user_id) ==
    LET k == <<guild_id, user_id>>
    IN IF k \in DOMAIN s.voice_states /\ s.voice_states[k].channel_id # None
       THEN [s EXCEPT !.voice_state_channels =
                RemoveAndCleanup(s.voice_state_channels, s.voice_states[k].channel_id, k)]
       ELSE s

\* a leave that forgets every user of the guild
voice_leave_guild_all(s, guild_id, user_id) ==
    [s EXCEPT !.voice_state_guilds = Del(s.voice_state_guilds, guild_id),
              !.voice_states = Del(s.voice_states, <<guild_id, user_id>>)]


\* lines 761-782: channel_id is None: the user has left
voice_leave_guild(s, guild_id, user_id) ==
    [s EXCEPT !.voice_state_guilds = RemoveAndCleanup(s.voice_state_guilds, guild_id, user_id),
              !.voice_states = Del(s.voice_states, <<guild_id, user_id>>)]

\* lines 784-804
voice_insert(s, guild_id, user_id, vs) ==
    [s EXCEPT !.voice_states = Put(s.voice_states, <<guild_id, user_id>>, vs),
              !.voice_state_guilds = EntryInsert(s.voice_state_guilds, guild_id, user_id),
              !.voice_state_channels =
                  IF vs.channel_id # None
                  THEN EntryInsert(s.voice_state_channels, vs.channel_id, <<guild_id, user_id>>)
                  ELSE s.voice_state_channels]

cache_voice_state(s, vs) ==
    IF vs.guild_id = None THEN s
    ELSE LET s1 == voice_leave_channel(s, vs.guild_id, vs.user_id)
         IN IF vs.channel_id = None
            THEN voice_leave_guild(s1, vs.guild_id, vs.user_id)
            ELSE voice_insert(s1, vs.guild_id, vs.user_id, vs)

RECURSIVE cache_voice_states(_, _)
cache_voice_states(s, vss) ==
    IF vss = << >> THEN s
    ELSE cache_voice_states(cache_voice_state(s, Head(vss)), Tail(vss))

(* -------------------------- lib.rs: guilds ---------------------------- *)
\* lines 536-541: the per-guild sets are (re)created empty
init_guild_sets(s, id) ==
    [s EXCEPT !.guild_channels = Put(s.guild_channels, id, {}),
              !.guild_emojis = Put(s.guild_emojis, id, {}),
              !.guild_members = Put(s.guild_members, id, {}),
              !.guild_presences = Put(s.guild_presences, id, {}),
              !.guild_roles = Put(s.guild_roles, id, {}),
              !.voice_state_guilds = Put(s.voice_state_guilds, id, {})]

\* a faulty variant that leaves the guild marked unavailable
insert_guild_marked(s, guild) ==
    [s EXCEPT !.guilds = Put(s.guilds, guild.id, [id |-> guild.id, name |-> guild.name])]

\* lines 590-591
insert_guild(s, guild) ==
    [s EXCEPT !.unavailable_guilds = s.unavailable_guilds \ {guild.id},
              !.guilds = Put(s.guilds, guild.id, [id |-> guild.id, name |-> guild.name])]

\* lines 536-550: the per-guild sets, then the children
cache_guild_children(s, guild) ==
    LET s1 == init_guild_sets(s, guild.id)
        s2 == cache_guild_channels(s1, guild.id, guild.channels)
        s3 == cache_emojis(s2, guild.id, guild.emojis)
        s4 == cache_members(s3, guild.id, guild.members)
        s5 == cache_presences(s4, guild.id, guild.presences)
        s6 == cache_roles(s5, guild.id, guild.roles)
    IN cache_voice_states(s6, guild.voice_states)

cache_guild(s, guild) == insert_guild(cache_guild_children(s, guild), guild)

\* a faulty variant that marks the guild unavailable and keeps its record
unavailable_guild_keep(s, guild_id) ==
    [s EXCEPT !.unavailable_guilds = s.unavailable_guilds \cup {guild_id}]

unavailable_guild(s, guild_id) ==
    [s EXCEPT !.unavailable_guilds = s.unavailable_guilds \cup {guild_id},
              !.guilds = Del(s.guilds, guild_id)]

delete_group(s, channel_id) == [s EXCEPT !.groups = Del(s.groups, channel_id)]

\* a faulty variant that leaves the channel listed under its guild
delete_guild_channel_unlisted(s, channel_id) ==
    [s EXCEPT !.channels_guild = Del(s.channels_guild, channel_id)]

delete_guild_channel(s, channel_id) ==
    IF channel_id \notin DOMAIN s.channels_guild THEN s
    ELSE [s EXCEPT !.channels_guild = Del(s.channels_guild, channel_id),
                   !.guild_channels = GetMutRemove(s.guild_channels,
                        s.channels_guild[channel_id].guild_id, channel_id)]

delete_role(s, role_id) ==
    IF role_id \notin DOMAIN s.roles THEN s
    ELSE [s EXCEPT !.roles = Del(s.roles, role_id),
                   !.guild_roles = GetMutRemove(s.guild_roles,
                        s.roles[role_id].guild_id, role_id)]

(* ----------------------- updates.rs: handlers ------------------------- *)
\* channel: [variant |-> "Group" | "Guild" | "Private", c |-> the channel]
channel_create(s, channel) ==
    CASE channel.variant = "Group" -> [s EXCEPT !.groups = upsert_item(s.groups, channel.c.id, channel.c)]
      [] channel.variant = "Guild" ->
            IF channel.c.guild_id # None
            THEN cache_guild_channel(s, channel.c.guild_id, channel.c)
            ELSE s
      [] channel.variant = "Private" -> cache_private_channel(s, channel.c)

ChannelCreate(channel) ==
    /\ ~(guard("CHANNEL_CREATE") /\ channel_blocks(Cache, channel))
    /\ Handle("CHANNEL_CREATE", channel_create(Cache, channel))

channel_delete(s, channel) ==
    CASE channel.variant = "Group" -> delete_group(s, channel.c.id)
      [] channel.variant = "Guild" -> delete_guild_channel(s, channel.c.id)
      [] channel.variant = "Private" ->
            [s EXCEPT !.channels_private = Del(s.channels_private, channel.c.id)]

ChannelDelete(channel) == Handle("CHANNEL_DELETE", channel_delete(Cache, channel))

channel_pins_update(s, channel_id, last_pin_timestamp) ==
    IF channel_id \in DOMAIN s.channels_guild
    THEN IF s.channels_guild[channel_id].data.kind = "Text"
         THEN [s EXCEPT !.channels_guild[channel_id].data.last_pin_timestamp = last_pin_timestamp]
         ELSE s
    ELSE IF channel_id \in DOMAIN s.channels_private
    THEN [s EXCEPT !.channels_private[channel_id].last_pin_timestamp = last_pin_timestamp]
    ELSE IF channel_id \in DOMAIN s.groups
    THEN [s EXCEPT !.groups[channel_id].last_pin_timestamp = last_pin_timestamp]
    ELSE s

ChannelPinsUpdate(channel_id, last_pin_timestamp) ==
    Handle("CHANNEL_PINS_UPDATE", channel_pins_update(Cache, channel_id, last_pin_timestamp))

channel_update(s, channel) ==
    CASE channel.variant = "Group" -> cache_group(s, channel.c)
      [] channel.variant = "Guild" ->
            IF channel.c.guild_id # None
            THEN cache_guild_channel(s, channel.c.guild_id, channel.c)
            ELSE s
      [] channel.variant = "Private" -> cache_private_channel(s, channel.c)

ChannelUpdate(channel) ==
    /\ ~(guard("CHANNEL_UPDATE") /\ channel_blocks(Cache, channel))
    /\ Handle("CHANNEL_UPDATE", channel_update(Cache, channel))

GuildCreate(guild) == Handle("GUILD_CREATE", cache_guild(Cache, guild))

\* remove_ids(guild_map, container, guild_id): returns the new container
remove_ids(guild_map, container, guild_id) ==
    IF guild_id \in DOMAIN guild_map THEN DelAll(container, guild_map[guild_id]) ELSE container

\* the same for the containers keyed by (guild, user)
remove_user_ids(guild_map, container, guild_id) ==
    IF guild_id \in DOMAIN guild_map
    THEN DelAll(container, {<<guild_id, u>> : u \in guild_map[guild_id]})
    ELSE container

\* line 243 removes the guild's entry of the guild -> voice users index
guild_delete(s, id) ==
    [s EXCEPT !.guilds = Del(s.guilds, id),
              !.channels_guild = remove_ids(s.guild_channels, s.channels_guild, id),
              !.guild_channels = Del(s.guild_channels, id),
              !.emojis = remove_ids(s.guild_emojis, s.emojis, id),
              !.guild_emojis = Del(s.guild_emojis, id),
              !.roles = remove_ids(s.guild_roles, s.roles, id),
              !.guild_roles = Del(s.guild_roles, id),
              !.voice_state_guilds = Del(s.voice_state_guilds, id),
              !.members = remove_user_ids(s.guild_members, s.members, id),
              !.guild_members = Del(s.guild_members, id),
              !.presences = remove_user_ids(s.guild_presences, s.presences, id),
              !.guild_presences = Del(s.guild_presences, id)]

GuildDelete(id) == Handle("GUILD_DELETE", guild_delete(Cache, id))

\* cache_emojis only: guild_emojis is not written
GuildEmojisUpdate(guild_id, ems) ==
    Handle("GUILD_EMOJIS_UPDATE", cache_emojis(Cache, guild_id, ems))

\* lines 290-330: the fields are overlaid on a clone of the stored handle
\* (Arc::clone, then Arc::make_mut on the clone), which is dropped at return
guild_update(s, id, name) ==
    LET overlaid == IF id \in DOMAIN s.guilds
                    THEN [s.guilds[id] EXCEPT !.name = name]
                    ELSE None
    IN s

GuildUpdate(id, name) == Handle("GUILD_UPDATE", guild_update(Cache, id, name))

member_add(s, guild_id, member) ==
    LET s1 == cache_member(s, guild_id, member)
    IN [s1 EXCEPT !.guild_members = EntryInsert(s1.guild_members, guild_id, member.user.id)]

MemberAdd(guild_id, member) == Handle("MEMBER_ADD", member_add(Cache, guild_id, member))

RECURSIVE insert_member_ids(_, _, _)
insert_member_ids(m, guild_id, mems) ==
    IF mems = << >> THEN m
    ELSE insert_member_ids(EntryInsert(m, guild_id, Head(mems).user.id), guild_id, Tail(mems))

member_chunk(s, guild_id, mems) ==
    IF mems = << >> THEN s
    ELSE LET s1 == cache_members(s, guild_id, mems)
         IN [s1 EXCEPT !.guild_members = insert_member_ids(s1.guild_members, guild_id, mems)]

MemberChunk(guild_id, mems) == Handle("MEMBER_CHUNK", member_chunk(Cache, guild_id, mems))

member_remove(s, guild_id, user_id) ==
    [s EXCEPT !.members = Del(s.members, <<guild_id, user_id>>),
              !.guild_members = GetMutRemove(s.guild_members, guild_id, user_id)]

MemberRemove(guild_id, user_id) == Handle("MEMBER_REMOVE", member_remove(Cache, guild_id, user_id))

\* an update that creates the member when it is not cached
member_update_create(s, guild_id, user_id, nick) ==
    [s EXCEPT !.members = Put(s.members, <<guild_id, user_id>>,
        [guild_id |-> guild_id, nick |-> nick,
         user |-> IF <<guild_id, user_id>> \in DOMAIN s.members
                  THEN s.members[<<guild_id, user_id>>].user ELSE User(user_id, 1)])]

\* nick stands for the two fields the handler overlays, nick and roles
member_update(s, guild_id, user_id, nick) ==
    IF <<guild_id, user_id>> \in DOMAIN s.members
    THEN [s EXCEPT !.members[<<guild_id, user_id>>].nick = nick]
    ELSE s

MemberUpdate(guild_id, user_id, nick) ==
    Handle("MEMBER_UPDATE", member_update(Cache, guild_id, user_id, nick))

PresenceUpdate(guild_id, presence) ==
    Handle("PRESENCE_UPDATE", cache_presence(Cache, guild_id, presence))

(* ------------------------ updates.rs: reactions ----------------------- *)
CurrentUser(id, name) == [id |-> id, name |-> name]

\* msg.reactions.iter_mut().find(|r| r.emoji == emoji): the index, or 0
RECURSIVE find_reaction(_, _, _)
find_reaction(reactions, emoji, i) ==
    IF i > Len(reactions) THEN 0
    ELSE IF reactions[i].emoji = emoji THEN i
    ELSE find_reaction(reactions, emoji, i + 1)

\* msg.reactions.retain(|e| !(e.emoji == emoji))
retain_other(reactions, emoji) == SelectSeq(reactions, LAMBDA r : r.emoji # emoji)

\* a test that takes every user for the current user
is_any_user(s, user_id) == s.current_user # << >>

is_current_user(s, user_id) == s.current_user # << >> /\ s.current_user[1].id = user_id

add_reaction(s, reactions, emoji, user_id) ==
    LET i == find_reaction(reactions, emoji, 1)
    IN IF i # 0
       THEN [reactions EXCEPT ![i] =
                [emoji |-> emoji,
                 count |-> reactions[i].count + 1,
                 me |-> IF ~reactions[i].me /\ is_current_user(s, user_id)
                        THEN TRUE ELSE reactions[i].me]]
       ELSE Append(reactions, [emoji |-> emoji, count |-> 1, me |-> is_current_user(s, user_id)])

\* a remove that decrements and never deletes the entry
remove_reaction_keep(s, reactions, emoji, user_id) ==
    LET i == find_reaction(reactions, emoji, 1)
    IN IF i = 0 THEN reactions
       ELSE [reactions EXCEPT ![i].count = @ - 1]

remove_reaction(s, reactions, emoji, user_id) ==
    LET i == find_reaction(reactions, emoji, 1)
    IN IF i = 0 THEN reactions
       ELSE IF reactions[i].count > 1
       THEN [reactions EXCEPT ![i] =
                [emoji |-> emoji,
                 count |-> reactions[i].count - 1,
                 me |-> IF reactions[i].me /\ is_current_user(s, user_id)
                        THEN FALSE ELSE reactions[i].me]]
       ELSE retain_other(reactions, emoji)

\* entry(channel_id).or_default(), then the message's reactions are rewritten
\* when the message is cached
with_reactions(s, c, id, reactions) ==
    LET channel == messages_entry(s, c)
    IN [s EXCEPT !.messages = Put(s.messages, c,
            IF id \in DOMAIN channel
            THEN Put(channel, id, [channel[id] EXCEPT !.reactions = reactions])
            ELSE channel)]

stored_reactions(s, c, id) ==
    IF id \in DOMAIN messages_entry(s, c) THEN messages_entry(s, c)[id].reactions ELSE << >>

ReactionAdd(c, id, emoji, user_id) ==
    Handle("REACTION_ADD",
           with_reactions(Cache, c, id, add_reaction(Cache, stored_reactions(Cache, c, id), emoji, user_id)))

ReactionRemove(c, id, emoji, user_id) ==
    Handle("REACTION_REMOVE",
           with_reactions(Cache, c, id, remove_reaction(Cache, stored_reactions(Cache, c, id), emoji, user_id)))

ReactionRemoveAll(c, id) == Handle("REACTION_REMOVE_ALL", with_reactions(Cache, c, id, << >>))

(* ------------------ updates.rs: ready, roles, the rest ---------------- *)
\* statuses: a sequence of [online |-> BOOLEAN, guild |-> Guild]
RECURSIVE ready_guilds(_, _)
ready_guilds(s, statuses) ==
    IF statuses = << >> THEN s
    ELSE ready_guilds(IF Head(statuses).online
                      THEN cache_guild(s, Head(statuses).guild)
                      ELSE unavailable_guild(s, Head(statuses).guild.id),
                      Tail(statuses))

\* a faulty variant that keeps a current user that is already set
ready_keep_user(s, user, statuses) ==
    ready_guilds(IF s.current_user = << >> THEN cache_current_user(s, user) ELSE s, statuses)

ready(s, user, statuses) == ready_guilds(cache_current_user(s, user), statuses)

Ready(user, statuses) == Handle("READY", ready(Cache, user, statuses))

role_create(s, guild_id, role) ==
    [s EXCEPT !.roles = upsert_guild_item(s.roles, guild_id, role.id, role)]

RoleCreate(guild_id, role) == Handle("ROLE_CREATE", role_create(Cache, guild_id, role))

RoleDelete(role_id) == Handle("ROLE_DELETE", delete_role(Cache, role_id))

RoleUpdate(guild_id, role) == Handle("ROLE_UPDATE", cache_role(Cache, guild_id, role))

unavailable_guild_update(s, id) ==
    [s EXCEPT !.guilds = Del(s.guilds, id),
              !.unavailable_guilds = s.unavailable_guilds \cup {id}]

UnavailableGuild(id) == Handle("UNAVAILABLE_GUILD", unavailable_guild_update(Cache, id))

UserUpdate(user) == Handle("USER_UPDATE", cache_current_user(Cache, user))

VoiceServerUpdate == Handle("VOICE_SERVER_UPDATE", Cache)

VoiceStateUpdate(vs) == Handle("VOICE_STATE_UPDATE", cache_voice_state(Cache, vs))

\* BanAdd, BanRemove, GuildIntegrationsUpdate, TypingStart, WebhooksUpdate and
\* the variants Event::update maps to Ok(()): no guard, no effect
NoOpEvent == Install(Cache)

(* ======================== message specification ======================= *)
MsgChannels == 1..NumMsgChannels
MessageIds == 1..NumMessages
Contents == 1..NumContents

Configs(caps) == {[event_types |-> EventTypeAll, message_cache_size |-> n] : n \in caps}

InitMsg == InitCache /\ config \in Configs(1..MaxCap)

\* observer: the channel has seen something else than creates of growing ids
Tainted == [ids |-> {}, mono |-> FALSE]

NoteCreate(c, id) ==
    IF c \notin DOMAIN created
    THEN Put(created, c, [ids |-> {id}, mono |-> TRUE])
    ELSE IF created[c].mono /\ \A x \in created[c].ids : x < id
    THEN Put(created, c, [ids |-> created[c].ids \cup {id}, mono |-> TRUE])
    ELSE Put(created, c, Tainted)

NoteOther(c) == Put(created, c, Tainted)

NextMsg ==
    \/ \E c \in MsgChannels, id \in MessageIds, content \in Contents :
         MessageCreate(Message(id, c, content)) /\ created' = NoteCreate(c, id)
         /\ UNCHANGED <<last_event, auxVars>>
    \/ \E c \in MsgChannels, id \in MessageIds :
         MessageDelete(c, id) /\ created' = NoteOther(c) /\ UNCHANGED <<last_event, auxVars>>
    \/ \E c \in MsgChannels, ids \in {S \in SUBSET MessageIds : Cardinality(S) <= MaxBulk} :
         MessageDeleteBulk(c, ids) /\ created' = NoteOther(c) /\ UNCHANGED <<last_event, auxVars>>
    \/ \E c \in MsgChannels, id \in MessageIds, content \in Contents \cup {None} :
         MessageUpdate(c, id, content) /\ created' = NoteOther(c) /\ UNCHANGED <<last_event, auxVars>>

SpecMsg == InitMsg /\ [][NextMsg]_vars

\* The n largest elements of S
Largest(S, n) == {x \in S : Cardinality({y \in S : y > x}) < n}

\* C1: no channel ever caches more messages than message_cache_size
C1_MessageCap ==
    \A c \in DOMAIN messages : Cardinality(DOMAIN messages[c]) <= config.message_cache_size

\* C2: after creates of cap + k strictly increasing ids in an empty channel,
\* exactly the cap largest ids are cached
C2_NewestKept ==
    \A c \in DOMAIN created :
        (created[c].mono /\ Cardinality(created[c].ids) >= config.message_cache_size)
        => DOMAIN messages[c] = Largest(created[c].ids, config.message_cache_size)

(* ========================= voice specification ======================== *)
VoiceGuilds == 1..NumVoiceGuilds
VoiceUsers == 1..NumVoiceUsers
VoiceChannels == 1..NumVoiceChannels

InitVoice == InitCache /\ config \in Configs({MaxCap})

\* bound of the exploration: at most MaxVoiceStates users are connected at once
VoiceRoom(vs) ==
    \/ vs.channel_id = None
    \/ vs.guild_id = None
    \/ <<vs.guild_id, vs.user_id>> \in DOMAIN voice_states
    \/ Cardinality(DOMAIN voice_states) < MaxVoiceStates

NextVoice ==
    \E g \in VoiceGuilds \cup {None}, c \in VoiceChannels \cup {None}, u \in VoiceUsers :
        /\ VoiceRoom(VoiceState(g, c, u))
        /\ VoiceStateUpdate(VoiceState(g, c, u))
        /\ UNCHANGED <<last_event, created, auxVars>>

SpecVoice == InitVoice /\ [][NextVoice]_vars

\* (g,u) has a state iff u is listed under g
VoiceGuildIndexOk ==
    /\ \A k \in DOMAIN voice_states :
          k[1] \in DOMAIN voice_state_guilds /\ k[2] \in voice_state_guilds[k[1]]
    /\ \A g \in DOMAIN voice_state_guilds : \A u \in voice_state_guilds[g] :
          <<g, u>> \in DOMAIN voice_states

\* every state has a channel that lists it, and every listed pair has a state
\* in that channel
VoiceChannelIndexOk ==
    /\ \A k \in DOMAIN voice_states :
          /\ voice_states[k].channel_id # None
          /\ voice_states[k].channel_id \in DOMAIN voice_state_channels
          /\ k \in voice_state_channels[voice_states[k].channel_id]
    /\ \A c \in DOMAIN voice_state_channels : \A k \in voice_state_channels[c] :
          k \in DOMAIN voice_states /\ voice_states[k].channel_id = c

\* C7: under voice-state updates alone the three voice indices agree, so the
\* keys of the channel (guild) index are exactly the channels (guilds) in use
C7_VoiceIndices ==
    /\ VoiceGuildIndexOk
    /\ VoiceChannelIndexOk
    /\ DOMAIN voice_state_channels = {voice_states[k].channel_id : k \in DOMAIN voice_states}
    /\ DOMAIN voice_state_guilds = {k[1] : k \in DOMAIN voice_states}

\* a move happened: two users share a channel while another channel is in use
C7_Witness ==
    /\ \E c \in DOMAIN voice_state_channels : Cardinality(voice_state_channels[c]) = 2
    /\ Cardinality(DOMAIN voice_state_channels) = 2
    /\ Cardinality(DOMAIN voice_state_guilds) = 2

(* ===================== availability specification ===================== *)
AvailGuilds == 1..NumAvailGuilds
Names == 1..NumNames

\* sequences over S of at most n elements
SeqsUpTo(S, n) == UNION {[1..k -> S] : k \in 0..n}

\* payload lists are maps keyed by id: no id occurs twice
DistinctIds(q) == \A i, j \in 1..Len(q) : i # j => q[i].id # q[j].id

IdSeqs(S, n) == {q \in SeqsUpTo(S, n) : DistinctIds(q)}

EmptyGuild(id, name) == Guild(id, name, << >>, << >>, << >>, << >>, << >>, << >>)

\* Ready.guilds: GuildStatus::Online(guild) or GuildStatus::Offline(unavailable)
Status(online, guild) == [id |-> guild.id, online |-> online, guild |-> guild]

AvailPayloads == {EmptyGuild(g, 1) : g \in AvailGuilds}

AvailStatuses == {Status(o, p) : o \in BOOLEAN, p \in AvailPayloads}

InitAvail == InitCache /\ config \in Configs({MaxCap})

NextAvail ==
    \/ \E p \in AvailPayloads : GuildCreate(p) /\ UNCHANGED <<last_event, created, auxVars>>
    \/ \E g \in AvailGuilds : GuildDelete(g) /\ UNCHANGED <<last_event, created, auxVars>>
    \/ \E g \in AvailGuilds : UnavailableGuild(g) /\ UNCHANGED <<last_event, created, auxVars>>
    \/ \E n \in Names, q \in IdSeqs(AvailStatuses, MaxReadyGuilds) :
         Ready(CurrentUser(1, n), q) /\ UNCHANGED <<last_event, created, auxVars>>

SpecAvail == InitAvail /\ [][NextAvail]_vars

\* C3: no guild id is a key of guilds and a member of unavailable_guilds
C3_AvailableXorUnavailable == \A g \in DOMAIN guilds : g \notin unavailable_guilds

\* after a Ready, one guild is cached while another is unavailable
C3_Witness ==
    /\ current_user # << >>
    /\ DOMAIN guilds # {}
    /\ unavailable_guilds # {}

(* ======================== channel specification ======================= *)
ChanGuilds == 1..NumChanGuilds
ChanChannels == 1..NumChanChannels

\* the guild channels an event or a payload may carry
ChanInputs == {GuildChannel(c, g, "Text", 1) : c \in ChanChannels, g \in ChanGuilds \cup {None}}

ChanPayloads == {Guild(g, 1, chs, << >>, << >>, << >>, << >>, << >>) :
                    g \in ChanGuilds, chs \in IdSeqs(ChanInputs, MaxChanChildren)}

GuildVariant(c) == [variant |-> "Guild", c |-> c]

InitChan == InitCache /\ config \in Configs({MaxCap})

NextChan ==
    \/ \E p \in ChanPayloads : GuildCreate(p) /\ UNCHANGED <<last_event, created, auxVars>>
    \/ \E g \in ChanGuilds : GuildDelete(g) /\ UNCHANGED <<last_event, created, auxVars>>
    \/ \E c \in ChanInputs : ChannelCreate(GuildVariant(c)) /\ UNCHANGED <<last_event, created, auxVars>>
    \/ \E c \in ChanInputs : ChannelUpdate(GuildVariant(c)) /\ UNCHANGED <<last_event, created, auxVars>>
    \/ \E c \in ChanInputs : ChannelDelete(GuildVariant(c)) /\ UNCHANGED <<last_event, created, auxVars>>

SpecChan == InitChan /\ [][NextChan]_vars

\* C4: every cached guild channel is listed in guild_channels of its guild
C4_ChannelListed ==
    \A c \in DOMAIN channels_guild :
        /\ channels_guild[c].guild_id \in DOMAIN guild_channels
        /\ c \in guild_channels[channels_guild[c].guild_id]

(* ========================= item specification ========================= *)
ItemGuilds == 1..NumItemGuilds
ItemUsers == 1..NumItemUsers
ItemRoles == 1..NumItemRoles
ItemEmojis == 1..NumItemEmojis
UserNames == 1..NumUserNames

ItemUserInputs == {User(u, n) : u \in ItemUsers, n \in UserNames}

ItemMemberInputs == {Member(usr, 1) : usr \in ItemUserInputs}

ItemPresenceInputs == {Presence(u, 1) : u \in ItemUsers}

\* Guild.members and Guild.presences are maps keyed by user id
MemberSeqs(n) ==
    {q \in SeqsUpTo(ItemMemberInputs, n) :
        \A i, j \in 1..Len(q) : i # j => q[i].user.id # q[j].user.id}

PresenceSeqs(n) ==
    {q \in SeqsUpTo(ItemPresenceInputs, n) :
        \A i, j \in 1..Len(q) : i # j => q[i].user_id # q[j].user_id}

ItemRoleInputs == {Role(r, 1) : r \in ItemRoles}

ItemEmojiInputs ==
    {Emoji(e, 1, usr) : e \in ItemEmojis, usr \in {<<User(u, 1)>> : u \in ItemUsers} \cup {<< >>}}

ItemPayloads ==
    {Guild(g, 1, << >>, ems, mems, pres, rls, << >>) :
        g \in ItemGuilds,
        ems \in IdSeqs(ItemEmojiInputs, MaxItemChildren),
        mems \in MemberSeqs(MaxItemChildren),
        pres \in PresenceSeqs(MaxItemChildren),
        rls \in IdSeqs(ItemRoleInputs, MaxItemChildren)}

InitItem == InitCache /\ config \in Configs({MaxCap})

NextItem ==
    \/ \E p \in ItemPayloads : GuildCreate(p) /\ UNCHANGED <<last_event, created, auxVars>>
    \/ \E g \in ItemGuilds : GuildDelete(g) /\ UNCHANGED <<last_event, created, auxVars>>
    \/ \E g \in ItemGuilds, ems \in IdSeqs(ItemEmojiInputs, MaxItemChildren) :
         GuildEmojisUpdate(g, ems) /\ UNCHANGED <<last_event, created, auxVars>>
    \/ \E g \in ItemGuilds, m \in ItemMemberInputs :
         MemberAdd(g, m) /\ UNCHANGED <<last_event, created, auxVars>>
    \/ \E g \in ItemGuilds, mems \in MemberSeqs(MaxItemChildren) :
         MemberChunk(g, mems) /\ UNCHANGED <<last_event, created, auxVars>>
    \/ \E g \in ItemGuilds, u \in ItemUsers :
         MemberRemove(g, u) /\ UNCHANGED <<last_event, created, auxVars>>
    \/ \E g \in ItemGuilds, pr \in ItemPresenceInputs :
         PresenceUpdate(g, pr) /\ UNCHANGED <<last_event, created, auxVars>>
    \/ \E g \in ItemGuilds, r \in ItemRoleInputs :
         RoleCreate(g, r) /\ UNCHANGED <<last_event, created, auxVars>>
    \/ \E g \in ItemGuilds, r \in ItemRoleInputs :
         RoleUpdate(g, r) /\ UNCHANGED <<last_event, created, auxVars>>
    \/ \E r \in ItemRoles : RoleDelete(r) /\ UNCHANGED <<last_event, created, auxVars>>

SpecItem == InitItem /\ [][NextItem]_vars

\* a primary index keyed by id whose cell carries the guild
ListedByGuild(primary, reverse) ==
    \A k \in DOMAIN primary :
        /\ primary[k].guild_id \in DOMAIN reverse
        /\ k \in reverse[primary[k].guild_id]

\* a primary index keyed by (guild, user)
ListedByPair(primary, reverse) ==
    \A k \in DOMAIN primary : k[1] \in DOMAIN reverse /\ k[2] \in reverse[k[1]]

\* C5: every cached role, emoji, member and presence is listed in the reverse
\* index of its guild
C5_ItemsListed ==
    /\ ListedByGuild(roles, guild_roles)
    /\ ListedByGuild(emojis, guild_emojis)
    /\ ListedByPair(members, guild_members)
    /\ ListedByPair(presences, guild_presences)

MemberGuilds(u) == {k[1] : k \in {m \in DOMAIN members : m[2] = u}}

\* C6: a user is cached iff some member references it, and its guild set is
\* exactly the guilds whose member tables contain it
C6_UsersMatchMembers ==
    /\ \A k \in DOMAIN members : k[2] \in DOMAIN users
    /\ \A u \in DOMAIN users : MemberGuilds(u) # {} /\ users[u].guilds = MemberGuilds(u)

(* ===================== voice and guild specification ================== *)
\* the voice states a guild payload carries: keyed by user, all of the guild
VoiceChildren(g) ==
    {q \in SeqsUpTo({VoiceState(g, c, u) : c \in VoiceChannels, u \in VoiceUsers},
                    MaxVoiceChildren) :
        \A i, j \in 1..Len(q) : i # j => q[i].user_id # q[j].user_id}

VoicePayloads ==
    UNION {{Guild(g, 1, << >>, << >>, << >>, << >>, << >>, vss) : vss \in VoiceChildren(g)} :
              g \in VoiceGuilds}

NextVoiceGuild ==
    \/ NextVoice
    \/ \E p \in VoicePayloads : GuildCreate(p) /\ UNCHANGED <<last_event, created, auxVars>>
    \/ \E p \in VoicePayloads, o \in BOOLEAN :
         Ready(CurrentUser(1, 1), <<Status(o, p)>>) /\ UNCHANGED <<last_event, created, auxVars>>
    \/ \E g \in VoiceGuilds : GuildDelete(g) /\ UNCHANGED <<last_event, created, auxVars>>

SpecVoiceGuild == InitVoice /\ [][NextVoiceGuild]_vars

\* C8: with GuildCreate, Ready and GuildDelete interleaved, every key (g,u) of
\* voice_states has u in voice_state_guilds[g]
C8_VoiceIndexKept ==
    \A k \in DOMAIN voice_states :
        k[1] \in DOMAIN voice_state_guilds /\ k[2] \in voice_state_guilds[k[1]]

\* C9: no key of voice_state_channels or voice_state_guilds has an empty set
C9_NoEmptyVoiceSets ==
    /\ \A c \in DOMAIN voice_state_channels : voice_state_channels[c] # {}
    /\ \A g \in DOMAIN voice_state_guilds : voice_state_guilds[g] # {}

(* ========================= filter specification ======================= *)
FilterIds == 1..NumFilterIds

\* the configured event_types: groups of categories, each leaving the
\* handlers of the other groups disabled
FilterEventTypes ==
    {{"GUILD_CREATE", "MESSAGE_CREATE"},
     {"GUILD_DELETE", "GUILD_UPDATE", "UNAVAILABLE_GUILD", "READY"},
     {"GUILD_EMOJIS_UPDATE", "USER_UPDATE", "BAN_ADD"},
     {"CHANNEL_CREATE", "CHANNEL_DELETE", "CHANNEL_UPDATE", "CHANNEL_PINS_UPDATE"},
     {"MESSAGE_CREATE", "MESSAGE_DELETE", "MESSAGE_DELETE_BULK", "MESSAGE_UPDATE"},
     {"MESSAGE_CREATE", "REACTION_ADD", "REACTION_REMOVE", "REACTION_REMOVE_ALL"},
     {"MEMBER_ADD", "MEMBER_CHUNK", "MEMBER_REMOVE", "MEMBER_UPDATE"},
     {"PRESENCE_UPDATE", "ROLE_CREATE", "ROLE_DELETE", "ROLE_UPDATE"},
     {"VOICE_SERVER_UPDATE", "VOICE_STATE_UPDATE"},
     {}}

FilterConfigs ==
    {[event_types |-> e, message_cache_size |-> MaxCap] : e \in FilterEventTypes}

InitFilter == InitCache /\ config \in FilterConfigs

\* observer: whether the category of the event just delivered was configured
Delivered(category) ==
    /\ last_event' = IF category \in config.event_types THEN "applied" ELSE "dropped"
    /\ UNCHANGED <<created, auxVars>>

\* a guild payload with one child of each kind, or none
FullGuild(g) ==
    Guild(g, 1, <<GuildChannel(g, g, "Text", 1)>>, <<Emoji(g, 1, <<User(g, 1)>>)>>,
          <<Member(User(g, 1), 1)>>, <<Presence(g, 1)>>, <<Role(g, 1)>>,
          <<VoiceState(g, g, g)>>)

FilterPayloads == {FullGuild(g) : g \in FilterIds} \cup {EmptyGuild(g, 1) : g \in FilterIds}

FilterChannels ==
    {[variant |-> "Guild", c |-> GuildChannel(c, g, "Text", 1)] : c \in FilterIds, g \in FilterIds}
    \cup {[variant |-> "Private", c |-> PrivateChannel(c, 1)] : c \in FilterIds}
    \cup {[variant |-> "Group", c |-> Group(c, 1)] : c \in FilterIds}

\* bound of the exploration: a reaction's count stays within MaxReactionCount
ReactionRoom(c, id, emoji) ==
    \A i \in 1..Len(stored_reactions(Cache, c, id)) :
        stored_reactions(Cache, c, id)[i].emoji = emoji
            => stored_reactions(Cache, c, id)[i].count < MaxReactionCount

NextFilterGuild ==
    \/ \E p \in FilterPayloads : GuildCreate(p) /\ Delivered("GUILD_CREATE")
    \/ \E g \in FilterIds : GuildDelete(g) /\ Delivered("GUILD_DELETE")
    \/ \E g \in FilterIds : GuildUpdate(g, 2) /\ Delivered("GUILD_UPDATE")
    \/ \E g \in FilterIds, x \in FilterIds :
         GuildEmojisUpdate(g, <<Emoji(x, 2, << >>)>>) /\ Delivered("GUILD_EMOJIS_UPDATE")
    \/ \E g \in FilterIds : UnavailableGuild(g) /\ Delivered("UNAVAILABLE_GUILD")
    \/ \E g \in FilterIds, o \in BOOLEAN :
         Ready(CurrentUser(1, 1), <<Status(o, EmptyGuild(g, 1))>>) /\ Delivered("READY")
    \/ \E x \in FilterIds : UserUpdate(CurrentUser(x, 2)) /\ Delivered("USER_UPDATE")
    \/ NoOpEvent /\ Delivered("BAN_ADD")

NextFilterChannel ==
    \/ \E ch \in FilterChannels : ChannelCreate(ch) /\ Delivered("CHANNEL_CREATE")
    \/ \E ch \in FilterChannels : ChannelDelete(ch) /\ Delivered("CHANNEL_DELETE")
    \/ \E ch \in FilterChannels : ChannelUpdate(ch) /\ Delivered("CHANNEL_UPDATE")
    \/ \E c \in FilterIds : ChannelPinsUpdate(c, 1) /\ Delivered("CHANNEL_PINS_UPDATE")
    \/ \E c \in FilterIds, id \in FilterIds :
         MessageCreate(Message(id, c, 1)) /\ Delivered("MESSAGE_CREATE")
    \/ \E c \in FilterIds, id \in FilterIds : MessageDelete(c, id) /\ Delivered("MESSAGE_DELETE")
    \/ \E c \in FilterIds, id \in FilterIds :
         MessageDeleteBulk(c, {id}) /\ Delivered("MESSAGE_DELETE_BULK")
    \/ \E c \in FilterIds, id \in FilterIds :
         MessageUpdate(c, id, 2) /\ Delivered("MESSAGE_UPDATE")
    \/ \E c \in FilterIds, id \in FilterIds, u \in FilterIds :
         ReactionRoom(c, id, 1) /\ ReactionAdd(c, id, 1, u) /\ Delivered("REACTION_ADD")
    \/ \E c \in FilterIds, id \in FilterIds, u \in FilterIds :
         ReactionRemove(c, id, 1, u) /\ Delivered("REACTION_REMOVE")
    \/ \E c \in FilterIds, id \in FilterIds :
         ReactionRemoveAll(c, id) /\ Delivered("REACTION_REMOVE_ALL")

NextFilterItem ==
    \/ \E g \in FilterIds, u \in FilterIds :
         MemberAdd(g, Member(User(u, 1), 1)) /\ Delivered("MEMBER_ADD")
    \/ \E g \in FilterIds, u \in FilterIds :
         MemberChunk(g, <<Member(User(u, 1), 2)>>) /\ Delivered("MEMBER_CHUNK")
    \/ \E g \in FilterIds, u \in FilterIds : MemberRemove(g, u) /\ Delivered("MEMBER_REMOVE")
    \/ \E g \in FilterIds, u \in FilterIds : MemberUpdate(g, u, 2) /\ Delivered("MEMBER_UPDATE")
    \/ \E g \in FilterIds, u \in FilterIds :
         PresenceUpdate(g, Presence(u, 2)) /\ Delivered("PRESENCE_UPDATE")
    \/ \E g \in FilterIds, r \in FilterIds : RoleCreate(g, Role(r, 1)) /\ Delivered("ROLE_CREATE")
    \/ \E r \in FilterIds : RoleDelete(r) /\ Delivered("ROLE_DELETE")
    \/ \E g \in FilterIds, r \in FilterIds : RoleUpdate(g, Role(r, 2)) /\ Delivered("ROLE_UPDATE")
    \/ VoiceServerUpdate /\ Delivered("VOICE_SERVER_UPDATE")
    \/ \E g \in FilterIds, c \in FilterIds \cup {None}, u \in FilterIds :
         VoiceStateUpdate(VoiceState(g, c, u)) /\ Delivered("VOICE_STATE_UPDATE")

NextFilter == NextFilterGuild \/ NextFilterChannel \/ NextFilterItem

SpecFilter == InitFilter /\ [][NextFilter]_vars

\* C10: an event whose category is not configured leaves every index and
\* current_user unchanged
C10_DisabledIsNoOp == [][last_event' = "dropped" => UNCHANGED cacheVars]_vars

\* a disabled event was delivered to a cache that holds a guild and its children
C10_Witness ==
    /\ last_event = "dropped"
    /\ DOMAIN guilds # {}
    /\ DOMAIN members # {}
    /\ DOMAIN voice_states # {}

(* ========================= handle specification ======================= *)
(* The indices store Arc<T>; a query returns a clone of the stored Arc.    *)
(* heap holds the cells, arc_of the address each slot of an index stores.  *)
\* a slot: <<index, key, key>>, 0 where the index has a single key
MemberSlot(g, u) == <<"member", g, u>>
MessageSlot(c, id) == <<"message", c, id>>
GuildSlot(g) == <<"guild", g, 0>>
PrivateSlot(c) == <<"private", c, 0>>
CurrentUserSlot == <<"current_user", 0, 0>>
RoleSlot(r) == <<"role", r, 0>>
GroupSlot(c) == <<"group", c, 0>>

\* the slots a cache state fills, and the value a fresh query of one returns
SlotSet(s) ==
    {MemberSlot(k[1], k[2]) : k \in DOMAIN s.members}
    \cup UNION {{MessageSlot(c, id) : id \in DOMAIN s.messages[c]} : c \in DOMAIN s.messages}
    \cup {GuildSlot(g) : g \in DOMAIN s.guilds}
    \cup {PrivateSlot(c) : c \in DOMAIN s.channels_private}
    \cup (IF s.current_user # << >> THEN {CurrentUserSlot} ELSE {})
    \cup {RoleSlot(r) : r \in DOMAIN s.roles}
    \cup {GroupSlot(c) : c \in DOMAIN s.groups}

SlotVal(s, slot) ==
    CASE slot[1] = "member" -> s.members[<<slot[2], slot[3]>>]
      [] slot[1] = "message" -> s.messages[slot[2]][slot[3]]
      [] slot[1] = "guild" -> s.guilds[slot[2]]
      [] slot[1] = "private" -> s.channels_private[slot[2]]
      [] slot[1] = "current_user" -> s.current_user[1]
      [] slot[1] = "role" -> s.roles[slot[2]].data
      [] slot[1] = "group" -> s.groups[slot[2]]

\* the allocator: a fresh address
Alloc(h) == CHOOSE a \in 1..(Cardinality(DOMAIN h) + 1) :
                a \notin DOMAIN h /\ \A b \in 1..(a - 1) : b \in DOMAIN h

\* Arc::new, Arc::clone, drop
ArcNew(h, v) == [heap |-> Put(h, Alloc(h), [v |-> v, strong |-> 1]), addr |-> Alloc(h)]

ArcClone(h, a) == [h EXCEPT ![a].strong = @ + 1]

ArcDrop(h, a) == IF h[a].strong = 1 THEN Del(h, a) ELSE [h EXCEPT ![a].strong = @ - 1]

\* a faulty make_mut that writes through a shared cell
ArcMakeMutShared(h, a, v) == [heap |-> [h EXCEPT ![a].v = v], addr |-> a]

\* Arc::make_mut(&mut arc) followed by the writes that leave v in the cell:
\* in place when the Arc is unique, else on a clone that replaces this Arc
ArcMakeMut(h, a, v) ==
    IF h[a].strong = 1
    THEN [heap |-> [h EXCEPT ![a].v = v], addr |-> a]
    ELSE ArcNew(ArcDrop(h, a), v)

\* map.insert(k, Arc::new(v)): the Arc stored before, if any, is dropped
store_insert(H, slot, v) ==
    LET n == ArcNew(H.heap, v)
        h == IF slot \in DOMAIN H.arc_of THEN ArcDrop(n.heap, H.arc_of[slot]) ELSE n.heap
    IN [heap |-> h, arc_of |-> Put(H.arc_of, slot, n.addr)]

\* an upsert that allocates a new Arc even for an equal value
store_upsert_fresh(H, slot, v) == store_insert(H, slot, v)

\* upsert_item, cache_member: an equal value keeps the stored Arc
store_upsert(H, slot, v) ==
    IF slot \in DOMAIN H.arc_of /\ H.heap[H.arc_of[slot]].v = v THEN H
    ELSE store_insert(H, slot, v)

\* get_mut(k), then Arc::make_mut on the stored Arc
store_make_mut(H, slot, v) ==
    IF slot \in DOMAIN H.arc_of
    THEN LET r == ArcMakeMut(H.heap, H.arc_of[slot], v)
         IN [heap |-> r.heap, arc_of |-> Put(H.arc_of, slot, r.addr)]
    ELSE H

\* cache_current_user: Arc::get_mut and swap when unique, else a new Arc
store_current_user(H, slot, v) ==
    IF slot \in DOMAIN H.arc_of /\ H.heap[H.arc_of[slot]].strong = 1
    THEN [H EXCEPT !.heap[H.arc_of[slot]].v = v]
    ELSE store_insert(H, slot, v)

\* GuildUpdate: Arc::clone of the stored Arc, Arc::make_mut on the clone,
\* the clone dropped at return
store_clone_make_mut(H, slot, v) ==
    IF slot \in DOMAIN H.arc_of
    THEN LET h1 == ArcClone(H.heap, H.arc_of[slot])
             r == ArcMakeMut(h1, H.arc_of[slot], v)
         IN [H EXCEPT !.heap = ArcDrop(r.heap, r.addr)]
    ELSE H

\* map.remove(k) drops the stored Arc
RECURSIVE store_remove_all(_, _)
store_remove_all(H, slots) ==
    IF slots = {} THEN H
    ELSE LET slot == CHOOSE x \in slots : TRUE
         IN store_remove_all([heap |-> ArcDrop(H.heap, H.arc_of[slot]),
                              arc_of |-> Del(H.arc_of, slot)], slots \ {slot})

Heap == [heap |-> heap, arc_of |-> arc_of]

store(H, how, slot, v) ==
    CASE how = "insert" -> store_insert(H, slot, v)
      [] how = "upsert" -> store_upsert(H, slot, v)
      [] how = "make_mut" -> store_make_mut(H, slot, v)
      [] how = "current_user" -> store_current_user(H, slot, v)
      [] how = "clone_make_mut" -> store_clone_make_mut(H, slot, v)

\* the value a fresh query of the slot returns after the step
After(slot) == IF slot \in SlotSet(Cache') THEN SlotVal(Cache', slot) ELSE None

\* the Arc-level effect of a handler of the given category that wrote v to
\* the slot by the given mechanism; the Arcs of the entries the handler
\* removed are dropped
HeapAfter(event_type, how, slot, v) ==
    LET H1 == IF guard(event_type) THEN store(Heap, how, slot, v) ELSE Heap
    IN store_remove_all(H1, DOMAIN H1.arc_of \ SlotSet(Cache'))

Stored(event_type, how, slot, v) ==
    /\ heap' = HeapAfter(event_type, how, slot, v).heap
    /\ arc_of' = HeapAfter(event_type, how, slot, v).arc_of
    /\ UNCHANGED <<handles, last_event, created, last_input>>

\* one key of each index: the slots do not interact
HandleIds == {1}

\* a reader's query clones the stored Arc and keeps it
Query(i, slot) ==
    /\ i \notin DOMAIN handles
    /\ slot \in DOMAIN arc_of
    /\ handles' = Put(handles, i, [slot |-> slot, addr |-> arc_of[slot],
                                   seen |-> heap[arc_of[slot]].v])
    /\ heap' = ArcClone(heap, arc_of[slot])
    /\ Install(Cache)
    /\ UNCHANGED <<arc_of, last_event, created, last_input>>

\* the reader drops its handle
Release(i) ==
    /\ i \in DOMAIN handles
    /\ handles' = Del(handles, i)
    /\ heap' = ArcDrop(heap, handles[i].addr)
    /\ Install(Cache)
    /\ UNCHANGED <<arc_of, last_event, created, last_input>>

\* the configured event_types: the categories that write one kind of slot
HandleEventTypes ==
    {{"MEMBER_ADD", "MEMBER_UPDATE", "MEMBER_REMOVE"},
     {"MESSAGE_CREATE", "MESSAGE_UPDATE", "REACTION_ADD", "REACTION_REMOVE",
      "REACTION_REMOVE_ALL"},
     {"CHANNEL_CREATE", "CHANNEL_PINS_UPDATE"},
     {"GUILD_CREATE", "GUILD_UPDATE"},
     {"USER_UPDATE", "READY"}}

InitHandle ==
    /\ InitCache
    /\ config \in {[event_types |-> e, message_cache_size |-> MaxCap] : e \in HandleEventTypes}

NextHandle ==
    \/ \E i \in 1..MaxHandles, slot \in DOMAIN arc_of : Query(i, slot)
    \/ \E i \in 1..MaxHandles : Release(i)
    \/ \E g \in {1}, u \in HandleIds, nick \in 1..2 :
         /\ MemberAdd(g, Member(User(u, 1), nick))
         /\ Stored("MEMBER_ADD", "upsert", MemberSlot(g, u), After(MemberSlot(g, u)))
    \/ \E g \in {1}, u \in HandleIds, nick \in 1..2 :
         /\ MemberUpdate(g, u, nick)
         /\ Stored("MEMBER_UPDATE", "make_mut", MemberSlot(g, u), After(MemberSlot(g, u)))
    \/ \E g \in {1}, u \in HandleIds :
         /\ MemberRemove(g, u)
         /\ Stored("MEMBER_REMOVE", "make_mut", MemberSlot(g, u), None)
    \/ \E c \in {1}, id \in HandleIds :
         /\ MessageCreate(Message(id, c, 1))
         /\ Stored("MESSAGE_CREATE", "insert", MessageSlot(c, id), After(MessageSlot(c, id)))
    \/ \E c \in {1}, id \in HandleIds, content \in {None, 2} :
         /\ MessageUpdate(c, id, content)
         /\ Stored("MESSAGE_UPDATE", "make_mut", MessageSlot(c, id), After(MessageSlot(c, id)))
    \/ \E c \in {1}, id \in HandleIds :
         /\ ReactionRoom(c, id, 1)
         /\ ReactionAdd(c, id, 1, 1)
         /\ Stored("REACTION_ADD", "make_mut", MessageSlot(c, id), After(MessageSlot(c, id)))
    \/ \E c \in {1}, id \in HandleIds :
         /\ ReactionRemove(c, id, 1, 1)
         /\ Stored("REACTION_REMOVE", "make_mut", MessageSlot(c, id), After(MessageSlot(c, id)))
    \/ \E c \in {1}, id \in HandleIds :
         /\ ReactionRemoveAll(c, id)
         /\ Stored("REACTION_REMOVE_ALL", "make_mut", MessageSlot(c, id),
                   After(MessageSlot(c, id)))
    \/ \E c \in HandleIds :
         /\ ChannelCreate([variant |-> "Private", c |-> PrivateChannel(c, 1)])
         /\ Stored("CHANNEL_CREATE", "upsert", PrivateSlot(c), After(PrivateSlot(c)))
    \/ \E c \in HandleIds, ts \in 1..2 :
         /\ ChannelPinsUpdate(c, ts)
         /\ Stored("CHANNEL_PINS_UPDATE", "make_mut", PrivateSlot(c), After(PrivateSlot(c)))
    \/ \E g \in HandleIds :
         /\ GuildCreate(EmptyGuild(g, 1))
         /\ Stored("GUILD_CREATE", "insert", GuildSlot(g), After(GuildSlot(g)))
    \/ \E g \in HandleIds :
         /\ GuildUpdate(g, 2)
         /\ Stored("GUILD_UPDATE", "clone_make_mut", GuildSlot(g),
                   IF g \in DOMAIN guilds THEN [guilds[g] EXCEPT !.name = 2] ELSE None)
    \/ \E n \in 1..2 :
         /\ UserUpdate(CurrentUser(1, n))
         /\ Stored("USER_UPDATE", "current_user", CurrentUserSlot, After(CurrentUserSlot))
    \/ \E n \in 1..2 :
         /\ Ready(CurrentUser(1, n), << >>)
         /\ Stored("READY", "current_user", CurrentUserSlot, After(CurrentUserSlot))

SpecHandle == InitHandle /\ [][NextHandle]_vars

\* the two levels agree: every filled slot stores an Arc whose cell holds the
\* value of the index, and only filled slots store one
HeapAgrees ==
    /\ DOMAIN arc_of = SlotSet(Cache)
    /\ \A slot \in DOMAIN arc_of :
          arc_of[slot] \in DOMAIN heap /\ heap[arc_of[slot]].v = SlotVal(Cache, slot)

\* C11: a handle a reader holds keeps showing the value it had when the query
\* returned it, whatever events follow; a fresh query returns the stored value
C11_HandleStable ==
    /\ \A i \in DOMAIN handles :
          handles[i].addr \in DOMAIN heap /\ heap[handles[i].addr].v = handles[i].seen
    /\ HeapAgrees

\* a held handle shows the old value of a slot that an event has since changed
C11_Witness ==
    \E i \in DOMAIN handles :
        /\ handles[i].slot \in DOMAIN arc_of
        /\ arc_of[handles[i].slot] # handles[i].addr
        /\ SlotVal(Cache, handles[i].slot) # handles[i].seen

(* ========================== clear specification ======================= *)
\* InMemoryCache::clear: the eight indices the method names
clear(s) ==
    [s EXCEPT !.channels_guild = EmptyMap,
              !.current_user = << >>,
              !.emojis = EmptyMap,
              !.guilds = EmptyMap,
              !.presences = EmptyMap,
              !.roles = EmptyMap,
              !.users = EmptyMap,
              !.voice_state_guilds = EmptyMap]

\* clear() is a method of the cache, not an event: no category guards it
Clear == Install(clear(Cache))

InitClear == InitCache /\ config \in Configs({MaxCap})

NextClear ==
    \/ \E p \in FilterPayloads :
         GuildCreate(p) /\ last_event' = "event" /\ UNCHANGED <<created, auxVars>>
    \/ \E g \in FilterIds :
         UnavailableGuild(g) /\ last_event' = "event" /\ UNCHANGED <<created, auxVars>>
    \/ \E ch \in FilterChannels :
         ChannelCreate(ch) /\ last_event' = "event" /\ UNCHANGED <<created, auxVars>>
    \/ \E c \in FilterIds, id \in FilterIds :
         MessageCreate(Message(id, c, 1)) /\ last_event' = "event"
         /\ UNCHANGED <<created, auxVars>>
    \/ \E x \in FilterIds :
         UserUpdate(CurrentUser(x, 1)) /\ last_event' = "event"
         /\ UNCHANGED <<created, auxVars>>
    \/ Clear /\ last_event' = "clear" /\ UNCHANGED <<created, auxVars>>

SpecClear == InitClear /\ [][NextClear]_vars

\* every index is empty and there is no current user, as after construction
AllEmpty ==
    /\ DOMAIN channels_guild = {} /\ DOMAIN channels_private = {} /\ DOMAIN emojis = {}
    /\ DOMAIN groups = {} /\ DOMAIN guilds = {} /\ DOMAIN guild_channels = {}
    /\ DOMAIN guild_emojis = {} /\ DOMAIN guild_members = {} /\ DOMAIN guild_presences = {}
    /\ DOMAIN guild_roles = {} /\ DOMAIN members = {} /\ DOMAIN messages = {}
    /\ DOMAIN presences = {} /\ DOMAIN roles = {} /\ DOMAIN users = {}
    /\ DOMAIN voice_state_channels = {} /\ DOMAIN voice_state_guilds = {}
    /\ DOMAIN voice_states = {}
    /\ unavailable_guilds = {}
    /\ current_user = << >>

\* C12: right after clear() every index is empty and current_user is None
C12_ClearEmptiesAll == last_event = "clear" => AllEmpty

(* ====================== guild update specification ==================== *)
NextGuildUpdate ==
    \/ \E g \in AvailGuilds, n \in Names :
         /\ GuildCreate(EmptyGuild(g, n))
         /\ last_event' = "GuildCreate" /\ last_input' = [id |-> g, name |-> n]
         /\ UNCHANGED <<created, heapVars>>
    \/ \E g \in AvailGuilds, n \in Names :
         /\ GuildUpdate(g, n)
         /\ last_event' = "GuildUpdate" /\ last_input' = [id |-> g, name |-> n]
         /\ UNCHANGED <<created, heapVars>>
    \/ \E g \in AvailGuilds :
         /\ GuildDelete(g)
         /\ last_event' = "GuildDelete" /\ last_input' = [id |-> g, name |-> 1]
         /\ UNCHANGED <<created, heapVars>>

SpecGuildUpdate == InitAvail /\ [][NextGuildUpdate]_vars

\* C13: after a GuildUpdate for a cached guild, the guild query returns the
\* fields of the update
C13_GuildUpdateApplied ==
    (last_event = "GuildUpdate" /\ last_input.id \in DOMAIN guilds)
        => guilds[last_input.id].name = last_input.name

(* ======================== cascade specification ======================= *)
\* guild payloads with children of every kind, with some, and with none
CascadePayloads ==
    {FullGuild(g) : g \in ItemGuilds} \cup {EmptyGuild(g, n) : g \in ItemGuilds, n \in Names}
    \cup {Guild(g, 1, << >>, << >>, << >>, << >>, <<Role(r, 1)>>, << >>) :
             g \in ItemGuilds, r \in ItemRoles}

NextCascade ==
    \/ \E p \in CascadePayloads :
         /\ GuildCreate(p)
         /\ last_event' = "GuildCreate" /\ last_input' = [id |-> p.id, name |-> p.name]
         /\ UNCHANGED <<created, heapVars>>
    \/ \E g \in ItemGuilds :
         /\ GuildDelete(g)
         /\ last_event' = "GuildDelete" /\ last_input' = [id |-> g, name |-> 1]
         /\ UNCHANGED <<created, heapVars>>
    \/ \E g \in ItemGuilds :
         /\ UnavailableGuild(g)
         /\ last_event' = "UnavailableGuild" /\ last_input' = [id |-> g, name |-> 1]
         /\ UNCHANGED <<created, heapVars>>

SpecCascade == InitItem /\ [][NextCascade]_vars

\* nothing of guild g is cached
NothingOf(g) ==
    /\ g \notin DOMAIN guilds
    /\ g \notin DOMAIN guild_channels /\ g \notin DOMAIN guild_emojis
    /\ g \notin DOMAIN guild_roles /\ g \notin DOMAIN guild_members
    /\ g \notin DOMAIN guild_presences
    /\ \A c \in DOMAIN channels_guild : channels_guild[c].guild_id # g
    /\ \A e \in DOMAIN emojis : emojis[e].guild_id # g
    /\ \A r \in DOMAIN roles : roles[r].guild_id # g
    /\ \A k \in DOMAIN members : k[1] # g
    /\ \A k \in DOMAIN presences : k[1] # g

\* C14: right after GuildDelete(g) the guild, its reverse-index entries and
\* every channel, emoji, role, member and presence cached for g are gone
C14_DeleteCascades == last_event = "GuildDelete" => NothingOf(last_input.id)

\* the key set of every index
KeySets(s) ==
    [channels_guild |-> DOMAIN s.channels_guild, channels_private |-> DOMAIN s.channels_private,
     emojis |-> DOMAIN s.emojis, groups |-> DOMAIN s.groups, guilds |-> DOMAIN s.guilds,
     guild_channels |-> DOMAIN s.guild_channels, guild_emojis |-> DOMAIN s.guild_emojis,
     guild_members |-> DOMAIN s.guild_members, guild_presences |-> DOMAIN s.guild_presences,
     guild_roles |-> DOMAIN s.guild_roles, members |-> DOMAIN s.members,
     messages |-> DOMAIN s.messages, presences |-> DOMAIN s.presences,
     roles |-> DOMAIN s.roles, unavailable_guilds |-> s.unavailable_guilds,
     users |-> DOMAIN s.users, voice_state_channels |-> DOMAIN s.voice_state_channels,
     voice_state_guilds |-> DOMAIN s.voice_state_guilds,
     voice_states |-> DOMAIN s.voice_states]

\* C15: in a state where guild g is not cached, GuildCreate(g) followed by
\* GuildDelete(g) gives back the key set of every index
C15_CreateDeleteRoundTrip ==
    \A p \in CascadePayloads :
        p.id \notin DOMAIN guilds
            => KeySets(guild_delete(cache_guild(Cache, p), p.id)) = KeySets(Cache)

(* ======================= voice transition table ======================= *)
SetAt(map, key) == IF key \in DOMAIN map THEN map[key] ELSE {}

\* new is old with exactly set stored under key, the key dropped when set is
\* empty
IsWith(new, old, key, set) ==
    /\ DOMAIN new \ {key} = DOMAIN old \ {key}
    /\ \A x \in DOMAIN new \ {key} : new[x] = old[x]
    /\ (key \in DOMAIN new) <=> (set # {})
    /\ key \in DOMAIN new => new[key] = set

\* what the row of the table for (state of the pair, update) prescribes
RowHolds(g, u, c) ==
    LET k == <<g, u>>
        vs == VoiceState(g, c, u)
        new == cache_voice_state(Cache, vs)
        absent == k \notin DOMAIN voice_states
        c0 == IF absent THEN None ELSE voice_states[k].channel_id
    IN  CASE absent /\ c # None ->
               /\ new.voice_states = Put(voice_states, k, vs)
               /\ IsWith(new.voice_state_guilds, voice_state_guilds, g,
                         SetAt(voice_state_guilds, g) \cup {u})
               /\ IsWith(new.voice_state_channels, voice_state_channels, c,
                         SetAt(voice_state_channels, c) \cup {k})
          [] ~absent /\ c = None ->
               /\ new.voice_states = Del(voice_states, k)
               /\ IsWith(new.voice_state_guilds, voice_state_guilds, g,
                         SetAt(voice_state_guilds, g) \ {u})
               /\ IsWith(new.voice_state_channels, voice_state_channels, c0,
                         SetAt(voice_state_channels, c0) \ {k})
          [] ~absent /\ c # None /\ c = c0 ->
               /\ new.voice_states = Put(voice_states, k, vs)
               /\ new.voice_state_guilds = voice_state_guilds
               /\ new.voice_state_channels = voice_state_channels
          [] ~absent /\ c # None /\ c # c0 ->
               /\ new.voice_states = Put(voice_states, k, vs)
               /\ Cardinality(DOMAIN new.voice_states) = Cardinality(DOMAIN voice_states)
               /\ c0 \notin DOMAIN new.voice_state_channels
                     <=> SetAt(voice_state_channels, c0) \ {k} = {}
               /\ SetAt(new.voice_state_channels, c0) = SetAt(voice_state_channels, c0) \ {k}
               /\ SetAt(new.voice_state_channels, c) = SetAt(voice_state_channels, c) \cup {k}
               /\ \A x \in (DOMAIN voice_state_channels \cup DOMAIN new.voice_state_channels)
                              \ {c0, c} :
                      SetAt(new.voice_state_channels, x) = SetAt(voice_state_channels, x)
          [] OTHER -> TRUE

\* C16: in every state, for every pair and every update, cache_voice_state
\* produces what the row of the transition table prescribes for join, leave,
\* same-channel update and move
C16_TransitionTable ==
    \A g \in VoiceGuilds, u \in VoiceUsers, c \in VoiceChannels \cup {None} : RowHolds(g, u, c)

\* the three voice indices of a cache state
VoiceIndices(s) ==
    <<s.voice_states, s.voice_state_channels, s.voice_state_guilds>>

\* C17: in every state, a leave (channel_id None) for a pair without a cached
\* voice state leaves the three voice indices as they are
C17_AbsentLeaveNoOp ==
    \A g \in VoiceGuilds, u \in VoiceUsers :
        <<g, u>> \notin DOMAIN voice_states
            => VoiceIndices(cache_voice_state(Cache, VoiceState(g, None, u))) = VoiceIndices(Cache)

(* ================== voice-and-guild-reset specification =============== *)
\* voice-state updates of guild 1 interleaved with its GuildCreate and
\* GuildDelete
NextVoiceReset ==
    \/ \E c \in VoiceChannels \cup {None}, u \in VoiceUsers :
         /\ VoiceRoom(VoiceState(1, c, u))
         /\ VoiceStateUpdate(VoiceState(1, c, u))
         /\ UNCHANGED <<last_event, created, auxVars>>
    \/ \E n \in Names :
         GuildCreate(EmptyGuild(1, n)) /\ UNCHANGED <<last_event, created, auxVars>>
    \/ GuildDelete(1) /\ UNCHANGED <<last_event, created, auxVars>>

SpecVoiceReset == InitVoice /\ [][NextVoiceReset]_vars

LeaveThenJoin(g, u, c) ==
    cache_voice_state(cache_voice_state(Cache, VoiceState(g, None, u)), VoiceState(g, c, u))

\* C18: in every state and for every (g, u, c), a leave of (g,u) followed by
\* a join of (g,u) to c gives the same three voice indices as the join alone
C18_LeaveJoinIsJoin ==
    \A g \in VoiceGuilds, u \in VoiceUsers, c \in VoiceChannels :
        VoiceIndices(LeaveThenJoin(g, u, c))
            = VoiceIndices(cache_voice_state(Cache, VoiceState(g, c, u)))

\* guild 1 was created and then two users joined it; one of them is in a
\* channel other than c, so that its leave and its join both change the indices
C18_Witness ==
    /\ 1 \in DOMAIN guilds
    /\ 1 \in DOMAIN voice_state_guilds /\ Cardinality(voice_state_guilds[1]) >= 2
    /\ \E u \in VoiceUsers, c \in VoiceChannels :
          /\ <<1, u>> \in DOMAIN voice_states
          /\ voice_states[<<1, u>>].channel_id # c
          /\ VoiceIndices(cache_voice_state(Cache, VoiceState(1, None, u))) # VoiceIndices(Cache)
          /\ VoiceIndices(LeaveThenJoin(1, u, c)) # VoiceIndices(Cache)

(* ======================= user-guild specification ===================== *)
\* members joining and leaving guilds; last_input records the event's
\* guild and user
NextUserGuild ==
    \/ \E g \in AvailGuilds, m \in ItemMemberInputs :
         /\ MemberAdd(g, m)
         /\ last_event' = "MemberAdd"
         /\ last_input' = [guild_id |-> g, user_id |-> m.user.id]
         /\ UNCHANGED <<created, heapVars>>
    \/ \E g \in AvailGuilds, u \in ItemUsers :
         /\ MemberRemove(g, u)
         /\ last_event' = "MemberRemove"
         /\ last_input' = [guild_id |-> g, user_id |-> u]
         /\ UNCHANGED <<created, heapVars>>

SpecUserGuild == InitItem /\ [][NextUserGuild]_vars

\* the guild set stored beside user u, empty when u is not cached
GuildsOf(us, u) == IF u \in DOMAIN us THEN us[u].guilds ELSE {}

\* C19: a MemberRemove(g, u) step removes g from the guild set stored beside
\* u; the user's entry is removed when the set empties and otherwise keeps
\* exactly the remaining guilds
C19_MemberRemoveUpdatesUser ==
    [][last_event' = "MemberRemove"
         => LET g == last_input'.guild_id
                u == last_input'.user_id
                rest == GuildsOf(users, u) \ {g}
            IN  /\ GuildsOf(users', u) = rest
                /\ (u \in DOMAIN users') <=> (rest # {})]_vars

\* C20: in every state, cache_user for a cached id with a record that differs
\* from the stored one and a guild g2 leaves a guild set that contains every
\* guild recorded before and g2
C20_CacheUserMerges ==
    \A usr \in ItemUserInputs, g2 \in AvailGuilds :
        (usr.id \in DOMAIN users /\ users[usr.id].user # usr)
            => (users[usr.id].guilds \cup {g2}) \subseteq
                   GuildsOf(cache_user(Cache, usr, g2).users, usr.id)

(* ========================= repeated member-add ======================== *)
\* the cache and the Arc level after n applications of MemberAdd(g, m)
RECURSIVE MemberAddTimes(_, _, _, _, _)
MemberAddTimes(s, H, g, m, n) ==
    IF n = 0 THEN [s |-> s, H |-> H]
    ELSE LET s1 == member_add(s, g, m)
             H1 == store(H, "upsert", MemberSlot(g, m.user.id), s1.members[<<g, m.user.id>>])
         IN MemberAddTimes(s1, H1, g, m, n - 1)

\* C21: in every state and for every MemberAdd event, applying it twice gives
\* the members, guild_members and users of applying it once, and the second
\* application keeps the Arc the first one left in the member's slot
C21_MemberAddIdempotent ==
    \A g \in ItemGuilds, usr \in ItemUserInputs, nick \in 1..2 :
        LET m == Member(usr, nick)
            once == MemberAddTimes(Cache, Heap, g, m, 1)
            twice == MemberAddTimes(Cache, Heap, g, m, 2)
        IN  /\ twice.s.members = once.s.members
            /\ twice.s.guild_members = once.s.guild_members
            /\ twice.s.users = once.s.users
            /\ twice.H = once.H

\* a member was added and a reader holds the Arc its slot stores, so that a
\* further MemberAdd of another nick replaces the Arc and an equal one must not
C21_Witness ==
    /\ <<1, 1>> \in DOMAIN members
    /\ \E i \in DOMAIN handles :
          /\ handles[i].slot = MemberSlot(1, 1)
          /\ arc_of[MemberSlot(1, 1)] = handles[i].addr
    /\ MemberAddTimes(Cache, Heap, 1, Member(User(1, 1), 3 - members[<<1, 1>>].nick), 1).H # Heap

(* ========================= upsert specification ======================= *)
UpsertKeys == {1, 2}

\* the configured event_types: the roles map (upsert_guild_item) or the
\* groups map (upsert_item)
UpsertEventTypes ==
    {{"ROLE_CREATE", "ROLE_UPDATE", "ROLE_DELETE"}, {"CHANNEL_CREATE", "CHANNEL_DELETE"}}

InitUpsert ==
    /\ InitCache
    /\ config \in {[event_types |-> e, message_cache_size |-> MaxCap] : e \in UpsertEventTypes}

\* the Arc an upsert returns: a clone of the Arc the entry holds afterwards
upsert_returns(H, slot) == H.arc_of[slot]

\* last_input records the call (map, guild_id, k, v) and the Arc it returned
Upserted(event_type, fn, slot, g, k, v) ==
    /\ guard(event_type)
    /\ heap' = HeapAfter(event_type, "upsert", slot, v).heap
    /\ arc_of' = HeapAfter(event_type, "upsert", slot, v).arc_of
    /\ last_event' = fn
    /\ last_input' = [slot |-> slot, guild_id |-> g, k |-> k, v |-> v,
                      ret |-> upsert_returns(HeapAfter(event_type, "upsert", slot, v), slot)]
    /\ UNCHANGED <<handles, created>>

Removed(event_type, slot) ==
    /\ guard(event_type)
    /\ heap' = store_remove_all(Heap, {slot}).heap
    /\ arc_of' = store_remove_all(Heap, {slot}).arc_of
    /\ last_event' = "remove"
    /\ last_input' = EmptyMap
    /\ UNCHANGED <<handles, created>>

NextUpsert ==
    \/ \E g \in ChanGuilds, r \in UpsertKeys, n \in Names :
         /\ RoleCreate(g, Role(r, n))
         /\ Upserted("ROLE_CREATE", "upsert_guild_item", RoleSlot(r), g, r, Role(r, n))
    \/ \E g \in ChanGuilds, r \in UpsertKeys, n \in Names :
         /\ RoleUpdate(g, Role(r, n))
         /\ Upserted("ROLE_UPDATE", "upsert_guild_item", RoleSlot(r), g, r, Role(r, n))
    \/ \E r \in UpsertKeys :
         /\ r \in DOMAIN roles
         /\ RoleDelete(r)
         /\ Removed("ROLE_DELETE", RoleSlot(r))
    \/ \E c \in UpsertKeys, n \in Names :
         /\ ChannelCreate([variant |-> "Group", c |-> Group(c, n)])
         /\ Upserted("CHANNEL_CREATE", "upsert_item", GroupSlot(c), None, c, Group(c, n))
    \/ \E c \in UpsertKeys :
         /\ c \in DOMAIN groups
         /\ ChannelDelete([variant |-> "Group", c |-> Group(c, 1)])
         /\ Removed("CHANNEL_DELETE", GroupSlot(c))

SpecUpsert == InitUpsert /\ [][NextUpsert]_vars

\* the entry of slot k: the value its Arc holds and, in the roles map, the
\* guild stored beside it
EntryOf(cache, H, slot) ==
    IF slot[1] = "role"
    THEN [arc |-> H.arc_of[slot], v |-> H.heap[H.arc_of[slot]].v,
          guild_id |-> cache.roles[slot[2]].guild_id, data |-> cache.roles[slot[2]].data]
    ELSE [arc |-> H.arc_of[slot], v |-> H.heap[H.arc_of[slot]].v,
          guild_id |-> None, data |-> cache.groups[slot[2]]]

\* C22: an upsert_item or upsert_guild_item step on an entry holding an equal
\* value writes nothing, returns the stored Arc and keeps the stored
\* guild_id; any other upsert stores a new Arc to v (with the guild_id of
\* the call) and returns it; no other key changes
C22_Upsert ==
    [][last_event' \in {"upsert_item", "upsert_guild_item"}
         => LET in == last_input'
                hit == in.slot \in DOMAIN arc_of /\ SlotVal(Cache, in.slot) = in.v
                new == EntryOf(Cache', Heap', in.slot)
            IN  /\ IF hit
                   THEN /\ new = EntryOf(Cache, Heap, in.slot)
                        /\ in.ret = arc_of[in.slot]
                        /\ heap' = heap
                   ELSE /\ new.arc \notin DOMAIN heap
                        /\ new.v = in.v /\ new.data = in.v
                        /\ new.guild_id = in.guild_id
                        /\ in.ret = new.arc
                /\ SlotSet(Cache') = SlotSet(Cache) \cup {in.slot}
                /\ \A s \in SlotSet(Cache) \ {in.slot} :
                      EntryOf(Cache', Heap', s) = EntryOf(Cache, Heap, s)]_vars

\* an upsert_guild_item call hit an equal role while naming another guild
\* than the stored one, with a second role cached
C22_Witness ==
    /\ last_event = "upsert_guild_item"
    /\ roles[last_input.k].guild_id # last_input.guild_id
    /\ roles[last_input.k].data = last_input.v
    /\ Cardinality(DOMAIN roles) = 2

(* ========================= unknown message ids ======================== *)
\* the cache after each of the five events naming (c, id)
OnMessage(c, id) ==
    {message_update(Cache, c, id, 1),
     message_delete(Cache, c, id),
     with_reactions(Cache, c, id, add_reaction(Cache, stored_reactions(Cache, c, id), 1, 1)),
     with_reactions(Cache, c, id, remove_reaction(Cache, stored_reactions(Cache, c, id), 1, 1)),
     with_reactions(Cache, c, id, << >>)}

\* C23: in every state, MessageUpdate, MessageDelete, ReactionAdd,
\* ReactionRemove and ReactionRemoveAll naming a message that is not cached
\* leave the cache, and so the key set of messages, as it is
C23_UnknownMessageIgnored ==
    \A c \in MsgChannels, id \in MessageIds :
        id \notin DOMAIN messages_entry(Cache, c) => OnMessage(c, id) = {Cache}

(* ======================== reaction specification ====================== *)
ReactEmojis == 1..NumReactEmojis
ReactUsers == {1, 2}

\* reactions on message 1 of channel 1; user 1 becomes the current user;
\* last_input records the event's emoji and user
NextReact ==
    \/ /\ MessageCreate(Message(1, 1, 1))
       /\ last_event' = "MessageCreate" /\ last_input' = EmptyMap
       /\ UNCHANGED <<created, heapVars>>
    \/ /\ UserUpdate(CurrentUser(1, 1))
       /\ last_event' = "UserUpdate" /\ last_input' = EmptyMap
       /\ UNCHANGED <<created, heapVars>>
    \/ \E e \in ReactEmojis, u \in ReactUsers :
         /\ ReactionRoom(1, 1, e)
         /\ ReactionAdd(1, 1, e, u)
         /\ last_event' = "ReactionAdd" /\ last_input' = [emoji |-> e, user_id |-> u]
         /\ UNCHANGED <<created, heapVars>>
    \/ \E e \in ReactEmojis, u \in ReactUsers :
         /\ ReactionRemove(1, 1, e, u)
         /\ last_event' = "ReactionRemove" /\ last_input' = [emoji |-> e, user_id |-> u]
         /\ UNCHANGED <<created, heapVars>>

SpecReact == InitVoice /\ [][NextReact]_vars

\* the entries of emoji e in a reactions vector, and their count and flag
EntriesOf(rs, e) == {i \in 1..Len(rs) : rs[i].emoji = e}

CountOf(rs, e) == IF EntriesOf(rs, e) = {} THEN 0 ELSE rs[CHOOSE i \in EntriesOf(rs, e) : TRUE].count

MeOf(rs, e) == IF EntriesOf(rs, e) = {} THEN FALSE ELSE rs[CHOOSE i \in EntriesOf(rs, e) : TRUE].me

ReactionsOk(rs) ==
    /\ \A e \in ReactEmojis : Cardinality(EntriesOf(rs, e)) <= 1
    /\ \A i \in 1..Len(rs) : rs[i].count >= 1

MessageCached == 1 \in DOMAIN messages /\ 1 \in DOMAIN messages[1]

\* C24: on a cached message every step leaves at most one entry per emoji and
\* counts >= 1; a ReactionAdd raises its emoji's count by 1, a ReactionRemove
\* lowers it by 1 (the entry is gone at 0) and changes nothing when the emoji
\* has no entry; the counts of the other emojis stay
C24_ReactionCounts ==
    [][LET old == stored_reactions(Cache, 1, 1)
           new == stored_reactions(Cache', 1, 1)
           e == last_input'.emoji
       IN  /\ ReactionsOk(new)
           /\ (MessageCached /\ last_event' = "ReactionAdd")
                 => /\ CountOf(new, e) = CountOf(old, e) + 1
                    /\ \A f \in ReactEmojis \ {e} : CountOf(new, f) = CountOf(old, f)
           /\ (MessageCached /\ last_event' = "ReactionRemove")
                 => /\ CountOf(new, e) = (IF CountOf(old, e) = 0 THEN 0 ELSE CountOf(old, e) - 1)
                    /\ (CountOf(new, e) = 0) <=> (EntriesOf(new, e) = {})
                    /\ CountOf(old, e) = 0 => new = old
                    /\ \A f \in ReactEmojis \ {e} : CountOf(new, f) = CountOf(old, f)]_vars

\* a remove has just acted and left entries of two emojis, one counted twice
C24_Witness ==
    /\ MessageCached
    /\ last_event = "ReactionRemove"
    /\ Len(messages[1][1].reactions) = 2
    /\ \E i \in 1..2 : messages[1][1].reactions[i].count = 2

\* C25: a ReactionAdd by the current user leaves me = TRUE, a ReactionRemove
\* by the current user leaves me = FALSE on a surviving entry; an event by
\* another user, or with no current user, keeps the flag of an existing entry
\* and creates entries with me = FALSE
C25_MeFlag ==
    [][(MessageCached /\ last_event' \in {"ReactionAdd", "ReactionRemove"})
         => LET old == stored_reactions(Cache, 1, 1)
                new == stored_reactions(Cache', 1, 1)
                e == last_input'.emoji
                mine == current_user # << >> /\ current_user[1].id = last_input'.user_id
            IN  /\ (mine /\ last_event' = "ReactionAdd") => MeOf(new, e)
                /\ (mine /\ last_event' = "ReactionRemove") => ~MeOf(new, e)
                /\ ~mine => MeOf(new, e) = (MeOf(old, e) /\ EntriesOf(new, e) # {})
                /\ \A f \in ReactEmojis \ {e} : MeOf(new, f) = MeOf(old, f)]_vars

\* the current user has just removed its reaction from an entry that
\* survives, next to an entry another user created
C25_Witness ==
    /\ MessageCached
    /\ last_event = "ReactionRemove"
    /\ current_user # << >> /\ current_user[1].id = last_input.user_id
    /\ CountOf(messages[1][1].reactions, last_input.emoji) = 1
    /\ Len(messages[1][1].reactions) = 2

(* ========================= member-update frame ======================== *)
\* C26: in every state, MemberUpdate for a cached (guild, user) changes the
\* overlaid field of that member and nothing else: the member's other
\* fields, the other members and every other index stay; for a pair that is
\* not cached the cache stays as it is
C26_MemberUpdateFrame ==
    \A g \in 1..2, u \in 1..2, nick \in 1..2 :
        LET k == <<g, u>>
            new == member_update(Cache, g, u, nick)
        IN  IF k \in DOMAIN members
            THEN /\ [new EXCEPT !.members = members] = Cache
                 /\ DOMAIN new.members = DOMAIN members
                 /\ \A j \in DOMAIN members \ {k} : new.members[j] = members[j]
                 /\ new.members[k].nick = nick
                 /\ new.members[k].user = members[k].user
                 /\ new.members[k].guild_id = members[k].guild_id
            ELSE new = Cache

\* a member is cached with its user and its guild listing, a reader holds
\* its Arc, and an update of the other nick changes the cache
C26_Witness ==
    /\ <<1, 1>> \in DOMAIN members
    /\ 1 \in DOMAIN users /\ 1 \in DOMAIN guild_members
    /\ \E i \in DOMAIN handles : handles[i].slot = MemberSlot(1, 1)
    /\ member_update(Cache, 1, 1, 3 - members[<<1, 1>>].nick) # Cache

(* ====================== ready and availability ======================== *)
\* C27: in every state and for every Ready event, afterwards current_user
\* is the event's user, every guild listed online is a key of guilds and not
\* in unavailable_guilds, and every guild listed offline is in
\* unavailable_guilds and not a key of guilds
C27_ReadyApplied ==
    \A n \in Names, q \in IdSeqs(AvailStatuses, MaxReadyGuilds) :
        LET new == ready(Cache, CurrentUser(1, n), q)
        IN  /\ new.current_user = <<CurrentUser(1, n)>>
            /\ \A i \in 1..Len(q) :
                  IF q[i].online
                  THEN q[i].id \in DOMAIN new.guilds /\ q[i].id \notin new.unavailable_guilds
                  ELSE q[i].id \in new.unavailable_guilds /\ q[i].id \notin DOMAIN new.guilds

\* a Ready has acted (it alone sets current_user), one guild is cached and
\* another unavailable, so that a Ready listing them the other way round
\* flips both
C27_Witness ==
    /\ current_user # << >>
    /\ \E g \in DOMAIN guilds, h \in unavailable_guilds :
          LET new == ready(Cache, current_user[1],
                           <<Status(FALSE, EmptyGuild(g, 1)), Status(TRUE, EmptyGuild(h, 1))>>)
          IN g \in new.unavailable_guilds /\ h \in DOMAIN new.guilds

Available(s, g) == g \in DOMAIN s.guilds /\ g \notin s.unavailable_guilds

Unavailable(s, g) == g \notin DOMAIN s.guilds /\ g \in s.unavailable_guilds

\* C28: in every state, UnavailableGuild(g) leaves g unavailable and not
\* cached and GuildCreate(g) leaves it cached and not unavailable, also when
\* one follows the other; as this holds in every reachable state it holds
\* along any alternation of the two events
C28_AvailabilityToggles ==
    \A p \in AvailPayloads :
        LET down == unavailable_guild_update(Cache, p.id)
            up == cache_guild(Cache, p)
        IN  /\ Unavailable(down, p.id)
            /\ Available(up, p.id)
            /\ Available(cache_guild(down, p), p.id)
            /\ Unavailable(unavailable_guild_update(up, p.id), p.id)

\* guild 1 is unavailable after having been cached and guild 2 is cached
\* after having been unavailable: each toggle has a state to act on
C28_Witness ==
    /\ Unavailable(Cache, 1) /\ 1 \in DOMAIN guild_channels
    /\ Available(Cache, 2)
    /\ current_user = << >>

(* ========================= child specification ======================== *)
ChildIds == {1, 2}

ChildChannels == {GuildChannel(c, g, "Text", 1) : c \in ChildIds, g \in ChanGuilds \cup {None}}

ChildRoles == {Role(r, n) : r \in ChildIds, n \in Names}

\* a GuildCreate payload carries at most one channel or at most one role
ChildChannelPayloads ==
    {Guild(g, 1, chs, << >>, << >>, << >>, << >>, << >>) :
        g \in ChanGuilds, chs \in IdSeqs(ChildChannels, 1)}

ChildRolePayloads ==
    {Guild(g, 1, << >>, << >>, << >>, << >>, rls, << >>) :
        g \in ChanGuilds, rls \in IdSeqs(ChildRoles, 1)}

\* the configured event_types: the channel events or the role events
ChildEventTypes ==
    {{"GUILD_CREATE", "CHANNEL_CREATE", "CHANNEL_UPDATE", "CHANNEL_DELETE"},
     {"GUILD_CREATE", "ROLE_CREATE", "ROLE_UPDATE", "ROLE_DELETE"}}

InitChild ==
    /\ InitCache
    /\ config \in {[event_types |-> e, message_cache_size |-> MaxCap] : e \in ChildEventTypes}

NextChild ==
    \/ \E p \in ChildChannelPayloads :
         guard("CHANNEL_CREATE") /\ GuildCreate(p) /\ UNCHANGED <<last_event, created, auxVars>>
    \/ \E c \in ChildChannels :
         guard("CHANNEL_CREATE") /\ ChannelCreate(GuildVariant(c))
         /\ UNCHANGED <<last_event, created, auxVars>>
    \/ \E c \in ChildChannels :
         guard("CHANNEL_UPDATE") /\ ChannelUpdate(GuildVariant(c))
         /\ UNCHANGED <<last_event, created, auxVars>>
    \/ \E c \in ChildChannels :
         guard("CHANNEL_DELETE") /\ ChannelDelete(GuildVariant(c))
         /\ UNCHANGED <<last_event, created, auxVars>>
    \/ \E p \in ChildRolePayloads :
         guard("ROLE_CREATE") /\ GuildCreate(p) /\ UNCHANGED <<last_event, created, auxVars>>
    \/ \E g \in ChanGuilds, r \in ChildRoles :
         guard("ROLE_CREATE") /\ RoleCreate(g, r) /\ UNCHANGED <<last_event, created, auxVars>>
    \/ \E g \in ChanGuilds, r \in ChildRoles :
         guard("ROLE_UPDATE") /\ RoleUpdate(g, r) /\ UNCHANGED <<last_event, created, auxVars>>
    \/ \E r \in ChildIds :
         guard("ROLE_DELETE") /\ RoleDelete(r) /\ UNCHANGED <<last_event, created, auxVars>>

SpecChild == InitChild /\ [][NextChild]_vars

(* ======================= channels carry their guild =================== *)
\* channel c is stored for guild g, carries g, and is listed under g
StoredFor(s, c, g) ==
    /\ c \in DOMAIN s.channels_guild
    /\ s.channels_guild[c].guild_id = g
    /\ s.channels_guild[c].data.guild_id = g
    /\ g \in DOMAIN s.guild_channels /\ c \in s.guild_channels[g]

\* C29: in every state, after GuildCreate(g) each channel of the payload,
\* whatever guild_id it carried, and after ChannelCreate or ChannelUpdate of
\* a channel carrying g that channel, is stored with guild_id g and listed
\* in guild_channels[g]
C29_ChannelsCarryGuild ==
    /\ \A p \in ChildChannelPayloads : \A i \in 1..Len(p.channels) :
          StoredFor(cache_guild(Cache, p), p.channels[i].id, p.id)
    /\ \A c \in ChildChannels :
          c.guild_id # None
             => /\ StoredFor(channel_create(Cache, GuildVariant(c)), c.id, c.guild_id)
                /\ StoredFor(channel_update(Cache, GuildVariant(c)), c.id, c.guild_id)

\* channel 1 is cached for guild 1 and listed there, so that a GuildCreate
\* of guild 2 carrying channel 1 without a guild_id moves it
C29_Witness ==
    /\ StoredFor(Cache, 1, 1)
    /\ 1 \in DOMAIN guilds
    /\ StoredFor(cache_guild(Cache, Guild(2, 1, <<GuildChannel(1, None, "Text", 1)>>,
                                          << >>, << >>, << >>, << >>, << >>)), 1, 2)

(* ============================== deletes =============================== *)
\* x is not listed under guild g
Unlisted(index, g, x) == g \in DOMAIN index => x \notin index[g]

\* C30: in every state, ChannelDelete of a cached guild channel removes it
\* from channels_guild and from guild_channels of the guild stored beside
\* it; RoleDelete of a cached role removes it from roles and from
\* guild_roles of the guild stored beside it; a delete of an id that is not
\* cached leaves the cache as it is
C30_DeleteBothIndices ==
    /\ \A c \in ChildChannels :
          LET new == channel_delete(Cache, GuildVariant(c))
          IN  IF c.id \in DOMAIN channels_guild
              THEN /\ c.id \notin DOMAIN new.channels_guild
                   /\ Unlisted(new.guild_channels, channels_guild[c.id].guild_id, c.id)
              ELSE new = Cache
    /\ \A r \in ChildIds :
          LET new == delete_role(Cache, r)
          IN  IF r \in DOMAIN roles
              THEN /\ r \notin DOMAIN new.roles
                   /\ Unlisted(new.guild_roles, roles[r].guild_id, r)
              ELSE new = Cache

\* channel 1 is cached and listed under its guild while channel 2 is not
\* cached, so that a delete has an entry and a listing to remove and an
\* unknown id to ignore
C30_Witness ==
    /\ 1 \in DOMAIN channels_guild
    /\ channels_guild[1].guild_id \in DOMAIN guild_channels
    /\ 1 \in guild_channels[channels_guild[1].guild_id]
    /\ 2 \notin DOMAIN channels_guild

(* ========================= guild emojis update ======================== *)
\* C31: in every state, after GuildEmojisUpdate(g, E) guild_emojis[g] is the
\* set of ids of E, every emoji of E is cached, and no emoji cached for g
\* that E omits remains in emojis
C31_EmojisReplaced ==
    \A g \in ItemGuilds, ems \in IdSeqs(ItemEmojiInputs, MaxItemChildren) :
        LET new == cache_emojis(Cache, g, ems)
            ids == {ems[i].id : i \in 1..Len(ems)}
        IN  /\ SetAt(new.guild_emojis, g) = ids
            /\ ids \subseteq DOMAIN new.emojis
            /\ \A e \in DOMAIN emojis :
                  (emojis[e].guild_id = g /\ e \notin ids) => e \notin DOMAIN new.emojis

(* ======================== voice_channel_states ======================== *)
\* InMemoryCache::voice_channel_states: << >> for None, else <<v>> with v the
\* snapshots collected, keyed by the pair they were looked up with
voice_channel_states(s, channel_id) ==
    IF channel_id \notin DOMAIN s.voice_state_channels THEN << >>
    ELSE <<[k \in {j \in s.voice_state_channels[channel_id] : j \in DOMAIN s.voice_states}
               |-> s.voice_states[k]]>>

\* C32: in every state, voice_channel_states(c) is None when c is not a key
\* of voice_state_channels and otherwise holds one snapshot per pair listed
\* under c, each the state of that pair and each with channel_id c
C32_VoiceChannelStates ==
    \A c \in VoiceChannels :
        LET r == voice_channel_states(Cache, c)
        IN  IF c \notin DOMAIN voice_state_channels THEN r = << >>
            ELSE /\ r # << >>
                 /\ DOMAIN r[1] = voice_state_channels[c]
                 /\ \A k \in DOMAIN r[1] :
                       /\ r[1][k].channel_id = c
                       /\ r[1][k].guild_id = k[1] /\ r[1][k].user_id = k[2]

\* two users share one channel, after a GuildCreate, while another channel
\* has no entry
C32_Witness ==
    /\ \E c \in DOMAIN voice_state_channels : Cardinality(voice_state_channels[c]) = 2
    /\ \E c \in VoiceChannels : c \notin DOMAIN voice_state_channels
    /\ 1 \in DOMAIN guilds

(* ======================== ownership, reversed ========================= *)
\* every id listed under g that the primary index holds is stored for g
OwnedBy(index, primary) ==
    \A g \in DOMAIN index : \A x \in index[g] :
        x \in DOMAIN primary => primary[x].guild_id = g

\* C33: in every state, an id listed in guild_channels[g], guild_roles[g] or
\* guild_emojis[g] that is cached has g stored beside it
C33_ListedUnderOwner ==
    /\ OwnedBy(guild_channels, channels_guild)
    /\ OwnedBy(guild_roles, roles)
    /\ OwnedBy(guild_emojis, emojis)

(* ===================== threads, shard locks, mutex ==================== *)
\* A DashMap guards each shard with an RwLock.  get holds it for reading
\* while the Ref lives; get_mut and entry hold it for writing while the
\* RefMut lives; insert and remove take it for writing for the call.  Which
\* keys share a shard is the hasher's choice: a lock is kept per key, the
\* choice under which the fewest calls wait.  A waiting writer does not keep
\* new readers out, again the choice under which the fewest calls wait.
Guard(map, key, mode) == <<map, key, mode>>

\* InMemoryCacheRef::current_user: Mutex<Option<Arc<CurrentUser>>>
MutexGuard == <<"current_user", 0, "mutex">>

\* DashMap::clear takes every shard of the map for writing
Shards(map) == <<map, 0, "all">>

AllHeld == UNION {held[t] : t \in Threads}

\* RwLock::read returns: no thread holds the lock for writing
CanRead(map, key) == Guard(map, key, "write") \notin AllHeld

\* RwLock::write returns: no thread holds the lock, the caller included
CanWrite(map, key) ==
    Guard(map, key, "write") \notin AllHeld /\ Guard(map, key, "read") \notin AllHeld

CanWriteAll(map) == \A l \in AllHeld : l[1] # map

\* Mutex::lock returns
CanLock == MutexGuard \notin AllHeld

VoiceKey(vs) == <<vs.guild_id, vs.user_id>>

\* the locks the statement thread t is at takes before it runs
Needs(t) ==
    LET f == frame[t]
        at == pc[t]
    IN  CASE at = "get_state" -> {Guard("voice_states", VoiceKey(f.vs), "read")}
          [] at \in {"get_mut_channel", "remove_channel"} ->
                {Guard("voice_state_channels", f.old, "write")}
          [] at \in {"get_mut_guild", "remove_guild", "entry_guild"} ->
                {Guard("voice_state_guilds", f.vs.guild_id, "write")}
          [] at \in {"remove_state", "insert_state"} ->
                {Guard("voice_states", VoiceKey(f.vs), "write")}
          [] at = "entry_channel" -> {Guard("voice_state_channels", f.vs.channel_id, "write")}
          [] at = "get_channel_states" -> {Guard("voice_state_channels", f.id, "read")}
          [] at = "collect_states" -> {Guard("voice_states", f.key, "read")}
          [] at = "entry_messages" -> {Guard("messages", f.reaction.channel_id, "write")}
          [] at \in {"lock_current_user", "cache_current_user", "current_user", "clear_lock"} ->
                {MutexGuard}
          [] at = "clear" -> {Shards("channels_guild")}
          [] at = "clear_rest" ->
                {Shards(m) : m \in {"emojis", "guilds", "presences", "roles", "users",
                                    "voice_state_guilds"}}
          [] at = "get_private" -> {Guard("channels_private", f.private_channel.id, "read")}
          [] at = "insert_private" -> {Guard("channels_private", f.private_channel.id, "write")}
          [] at \in {"remove_guild_record", "insert_guild_record"} ->
                {Guard("guilds", f.id, "write")}
          [] at \in {"remove_unavailable", "insert_unavailable"} ->
                {Guard("unavailable_guilds", f.id, "write")}
          [] at \in {"get_mut_user", "insert_user"} -> {Guard("users", f.user.id, "write")}
          [] OTHER -> {}

CanTake(l) ==
    CASE l[3] = "read" -> CanRead(l[1], l[2])
      [] l[3] = "write" -> CanWrite(l[1], l[2])
      [] l[3] = "all" -> CanWriteAll(l[1])
      [] l[3] = "mutex" -> CanLock

\* the statement thread t is at can run
Acquirable(t) == \A l \in Needs(t) : CanTake(l)

\* thread t is at the statement label and the locks it takes are free
At(t, label) == pc[t] = label /\ Acquirable(t)

\* one statement of thread t: it moves to label with locals fr, holds the
\* guards hs and leaves the indices as s
Step(t, label, s, fr, hs) ==
    /\ pc' = [pc EXCEPT ![t] = label]
    /\ frame' = [frame EXCEPT ![t] = fr]
    /\ held' = [held EXCEPT ![t] = hs]
    /\ Indices(s)
    /\ UNCHANGED <<last_event, created, auxVars>>

\* the call returns: its locals and every guard it holds are dropped
Return(t, s) == Step(t, "idle", s, NoFrame, {})

\* an idle thread enters a call
Call(t, label, fr) == pc[t] = "idle" /\ Step(t, label, Cache, fr, {})

(* --------------- cache_voice_state, statement by statement ------------ *)
StateRef(vs) == Guard("voice_states", VoiceKey(vs), "read")

\* the statement after the if-let of lines 741-758
AfterUnmap(vs) == IF vs.channel_id = None THEN "get_mut_guild" ELSE "insert_state"

\* updates.rs VoiceStateUpdate: the guard, then cache_voice_state(vs)
VoiceStateUpdateCall(t, vs) ==
    /\ guard("VOICE_STATE_UPDATE")
    /\ vs.guild_id # None
    /\ Call(t, "get_state", [NoFrame EXCEPT !.vs = vs])

\* line 741: voice_states.get(&(guild_id, user_id)); the Ref lives to line 758
get_state(t) ==
    LET vs == frame[t].vs
        k == VoiceKey(vs)
    IN  /\ At(t, "get_state")
        /\ IF k \in DOMAIN voice_states /\ voice_states[k].channel_id # None
           THEN Step(t, "get_mut_channel", Cache,
                     [frame[t] EXCEPT !.old = voice_states[k].channel_id],
                     held[t] \cup {StateRef(vs)})
           ELSE Step(t, AfterUnmap(vs), Cache, frame[t], held[t])

\* lines 743-754: get_mut(&channel_id), remove the pair, is_empty()
get_mut_channel(t) ==
    LET vs == frame[t].vs
        c == frame[t].old
        left == IF c \in DOMAIN voice_state_channels
                THEN voice_state_channels[c] \ {VoiceKey(vs)} ELSE {}
    IN  /\ At(t, "get_mut_channel")
        /\ IF c \in DOMAIN voice_state_channels
           THEN IF left = {}
                THEN Step(t, "remove_channel",
                          [Cache EXCEPT !.voice_state_channels = Put(voice_state_channels, c, left)],
                          frame[t], held[t])
                ELSE Step(t, AfterUnmap(vs),
                          [Cache EXCEPT !.voice_state_channels = Put(voice_state_channels, c, left)],
                          frame[t], held[t] \ {StateRef(vs)})
           ELSE Step(t, AfterUnmap(vs), Cache, frame[t], held[t] \ {StateRef(vs)})

\* lines 756-758: voice_state_channels.remove(&channel_id)
remove_channel(t) ==
    LET vs == frame[t].vs
        c == frame[t].old
    IN  /\ At(t, "remove_channel")
        /\ Step(t, AfterUnmap(vs),
                [Cache EXCEPT !.voice_state_channels = Del(voice_state_channels, c)],
                frame[t], held[t] \ {StateRef(vs)})

\* lines 763-772: get_mut(&guild_id), remove the user, is_empty()
get_mut_guild(t) ==
    LET vs == frame[t].vs
        g == vs.guild_id
        left == IF g \in DOMAIN voice_state_guilds
                THEN voice_state_guilds[g] \ {vs.user_id} ELSE {}
    IN  /\ At(t, "get_mut_guild")
        /\ IF g \in DOMAIN voice_state_guilds
           THEN Step(t, IF left = {} THEN "remove_guild" ELSE "remove_state",
                     [Cache EXCEPT !.voice_state_guilds = Put(voice_state_guilds, g, left)],
                     frame[t], held[t])
           ELSE Step(t, "remove_state", Cache, frame[t], held[t])

\* lines 774-776: voice_state_guilds.remove(&guild_id)
remove_guild(t) ==
    LET g == frame[t].vs.guild_id
    IN  /\ At(t, "remove_guild")
        /\ Step(t, "remove_state",
                [Cache EXCEPT !.voice_state_guilds = Del(voice_state_guilds, g)],
                frame[t], held[t])

\* lines 779-781: voice_states.remove(&(guild_id, user_id)) and return
remove_state(t) ==
    LET k == VoiceKey(frame[t].vs)
    IN  /\ At(t, "remove_state")
        /\ Return(t, [Cache EXCEPT !.voice_states = Del(voice_states, k)])

\* lines 784-788: voice_states.insert
insert_state(t) ==
    LET vs == frame[t].vs
    IN  /\ At(t, "insert_state")
        /\ Step(t, "entry_guild",
                [Cache EXCEPT !.voice_states = Put(voice_states, VoiceKey(vs), vs)],
                frame[t], held[t])

\* lines 790-794: voice_state_guilds.entry(guild_id).or_default().insert(user_id)
entry_guild(t) ==
    LET vs == frame[t].vs
    IN  /\ At(t, "entry_guild")
        /\ Step(t, "entry_channel",
                [Cache EXCEPT !.voice_state_guilds =
                    EntryInsert(voice_state_guilds, vs.guild_id, vs.user_id)],
                frame[t], held[t])

\* lines 796-804: voice_state_channels.entry(channel_id).or_default().insert(pair)
entry_channel(t) ==
    LET vs == frame[t].vs
    IN  /\ At(t, "entry_channel")
        /\ Return(t, [Cache EXCEPT !.voice_state_channels =
                        EntryInsert(voice_state_channels, vs.channel_id, VoiceKey(vs))])

\* the statements of cache_voice_state
cache_voice_state_step(t) ==
    \/ get_state(t)
    \/ get_mut_channel(t)
    \/ remove_channel(t)
    \/ get_mut_guild(t)
    \/ remove_guild(t)
    \/ remove_state(t)
    \/ insert_state(t)
    \/ entry_guild(t)
    \/ entry_channel(t)

(* ------------------------ voice_channel_states ------------------------ *)
VoiceChannelStatesCall(t, channel_id) ==
    Call(t, "get_channel_states", [NoFrame EXCEPT !.id = channel_id])

\* line 390: voice_state_channels.get(&channel_id)?; the Ref lives to the
\* return; the iterator yields the pairs in the order of the HashSet
get_channel_states(t) ==
    LET c == frame[t].id
    IN  /\ At(t, "get_channel_states")
        /\ IF c \in DOMAIN voice_state_channels /\ voice_state_channels[c] # {}
           THEN \E k \in voice_state_channels[c] :
                   Step(t, "collect_states", Cache,
                        [frame[t] EXCEPT !.key = k, !.todo = voice_state_channels[c] \ {k}],
                        held[t] \cup {Guard("voice_state_channels", c, "read")})
           ELSE Return(t, Cache)

\* lines 392-396: voice_states.get(&key) for the next pair
collect_states(t) ==
    /\ At(t, "collect_states")
    /\ IF frame[t].todo = {} THEN Return(t, Cache)
       ELSE \E k \in frame[t].todo :
               Step(t, "collect_states", Cache,
                    [frame[t] EXCEPT !.key = k, !.todo = @ \ {k}], held[t])

(* --------------------- the current user's mutex ----------------------- *)
CurrentUserCall(t) == Call(t, "current_user", NoFrame)

\* lines 246-248: current_user.lock()
current_user_lock(t) ==
    /\ At(t, "current_user")
    /\ Step(t, "current_user_clone", Cache, frame[t], held[t] \cup {MutexGuard})

\* lines 249-250: clone(); the guard is a temporary of the expression
current_user_clone(t) == At(t, "current_user_clone") /\ Return(t, Cache)

\* updates.rs UserUpdate: the guard, then cache_current_user(user)
UserUpdateCall(t, user) ==
    /\ guard("USER_UPDATE")
    /\ Call(t, "cache_current_user", [NoFrame EXCEPT !.user = user])

\* line 428: current_user.lock()
cache_current_user_lock(t) ==
    /\ At(t, "cache_current_user")
    /\ Step(t, "swap_current_user", Cache, frame[t], held[t] \cup {MutexGuard})

\* lines 430-438: the user is stored; the guard drops at the return
swap_current_user(t) ==
    /\ At(t, "swap_current_user")
    /\ Return(t, cache_current_user(Cache, frame[t].user))

ClearCall(t) == Call(t, "clear", NoFrame)

\* line 413: channels_guild.clear()
clear_channels(t) ==
    /\ At(t, "clear")
    /\ Step(t, "clear_lock", [Cache EXCEPT !.channels_guild = EmptyMap], frame[t], held[t])

\* lines 414-416: current_user.lock()
clear_lock(t) ==
    /\ At(t, "clear_lock")
    /\ Step(t, "clear_take", Cache, frame[t], held[t] \cup {MutexGuard})

\* a faulty variant that keeps the mutex for the rest of clear()
clear_take_held(t) ==
    /\ At(t, "clear_take")
    /\ Step(t, "clear_rest", [Cache EXCEPT !.current_user = << >>], frame[t], held[t])

\* lines 417-418: take(); the guard is a temporary of the statement
clear_take(t) ==
    /\ At(t, "clear_take")
    /\ Step(t, "clear_rest", [Cache EXCEPT !.current_user = << >>], frame[t],
            held[t] \ {MutexGuard})

\* lines 419-424: the six clears that follow, each taking its own map's shards
clear_rest(t) ==
    /\ At(t, "clear_rest")
    /\ Return(t, [Cache EXCEPT !.emojis = EmptyMap, !.guilds = EmptyMap,
                               !.presences = EmptyMap, !.roles = EmptyMap,
                               !.users = EmptyMap, !.voice_state_guilds = EmptyMap])

(* ----------------- ReactionAdd, statement by statement ---------------- *)
ReactionAddCall(t, c, id, emoji, user_id) ==
    /\ guard("REACTION_ADD")
    /\ Call(t, "entry_messages",
            [NoFrame EXCEPT !.reaction = [channel_id |-> c, message_id |-> id,
                                          emoji |-> emoji, user_id |-> user_id]])

\* updates.rs 557-562: messages.entry(channel_id).or_default(), whose RefMut
\* lives to the return, then the lookup of the message
entry_messages(t) ==
    LET r == frame[t].reaction
        channel == messages_entry(Cache, r.channel_id)
        s == [Cache EXCEPT !.messages = Put(messages, r.channel_id, channel)]
        rs == stored_reactions(Cache, r.channel_id, r.message_id)
        i == find_reaction(rs, r.emoji, 1)
    IN  /\ At(t, "entry_messages")
        /\ IF r.message_id \notin DOMAIN channel THEN Return(t, s)
           ELSE Step(t, IF i # 0 /\ rs[i].me THEN "apply_reaction" ELSE "lock_current_user",
                     s, frame[t], held[t] \cup {Guard("messages", r.channel_id, "write")})

\* updates.rs 568 and 578: cache.current_user(), lib.rs 246-248
lock_current_user(t) ==
    /\ At(t, "lock_current_user")
    /\ Step(t, "clone_current_user", Cache, frame[t], held[t] \cup {MutexGuard})

\* lib.rs 249-250: the clone; the mutex is released, the RefMut is still held
clone_current_user(t) ==
    /\ At(t, "clone_current_user")
    /\ Step(t, "apply_reaction", Cache, [frame[t] EXCEPT !.current_user = current_user],
            held[t] \ {MutexGuard})

\* updates.rs 564-589: the reaction is counted against the user that was cloned
apply_reaction(t) ==
    LET r == frame[t].reaction
        seen == [Cache EXCEPT !.current_user = frame[t].current_user]
    IN  /\ At(t, "apply_reaction")
        /\ Return(t, with_reactions(Cache, r.channel_id, r.message_id,
                        add_reaction(seen, stored_reactions(Cache, r.channel_id, r.message_id),
                                     r.emoji, r.user_id)))

\* updates.rs 419-437: the handler holds one RefMut from its first map call to
\* its return and takes no other lock
MessageCreateCall(t, msg) ==
    /\ guard("MESSAGE_CREATE")
    /\ pc[t] = "idle"
    /\ CanWrite("messages", msg.channel_id)
    /\ Return(t, message_create(Cache, msg))

(* ------------- cache_private_channel, statement by statement ---------- *)
\* updates.rs ChannelUpdate, Channel::Private
ChannelUpdateCall(t, private_channel) ==
    /\ guard("CHANNEL_UPDATE")
    /\ Call(t, "get_private", [NoFrame EXCEPT !.private_channel = private_channel])

\* lines 665-666: the match on channels_private.get(&id); the Ref of Some(_)
\* is a temporary of the scrutinee and lives to the end of the match
get_private(t) ==
    LET p == frame[t].private_channel
    IN  /\ At(t, "get_private")
        /\ IF p.id \in DOMAIN channels_private
           THEN IF channels_private[p.id] = p
                THEN Return(t, Cache)
                ELSE Step(t, "insert_private", Cache, frame[t],
                          held[t] \cup {Guard("channels_private", p.id, "read")})
           ELSE Step(t, "insert_private", Cache, frame[t], held[t])

\* lines 667-671: channels_private.insert(id, v) inside the match
insert_private(t) ==
    LET p == frame[t].private_channel
    IN  /\ At(t, "insert_private")
        /\ Return(t, [Cache EXCEPT !.channels_private = Put(channels_private, p.id, p)])

(* ==================== calls of several threads at once ================ *)
LockEventTypes ==
    {{"MESSAGE_CREATE", "REACTION_ADD", "USER_UPDATE"}, {"VOICE_STATE_UPDATE"},
     {"CHANNEL_UPDATE"}}

InitLock ==
    /\ InitCache
    /\ config \in {[event_types |-> e, message_cache_size |-> MaxCap] : e \in LockEventTypes}

LockIds == {1, 2}

\* a thread enters a handler or a query
LockCall(t) ==
    \/ \E u \in LockIds, c \in {None, 1} : VoiceStateUpdateCall(t, VoiceState(1, c, u))
    \/ VoiceChannelStatesCall(t, 1)
    \/ CurrentUserCall(t)
    \/ \E u \in LockIds : UserUpdateCall(t, CurrentUser(u, 1))
    \/ ClearCall(t)
    \/ MessageCreateCall(t, Message(1, 1, 1))
    \/ \E u \in LockIds : ReactionRoom(1, 1, 1) /\ ReactionAddCall(t, 1, 1, 1, u)
    \/ \E n \in LockIds : ChannelUpdateCall(t, PrivateChannel(1, n))

\* the statement thread t is at
Statement(t) ==
    \/ cache_voice_state_step(t)
    \/ get_channel_states(t)
    \/ collect_states(t)
    \/ current_user_lock(t)
    \/ current_user_clone(t)
    \/ cache_current_user_lock(t)
    \/ swap_current_user(t)
    \/ clear_channels(t)
    \/ clear_lock(t)
    \/ clear_take(t)
    \/ clear_rest(t)
    \/ entry_messages(t)
    \/ lock_current_user(t)
    \/ clone_current_user(t)
    \/ apply_reaction(t)
    \/ get_private(t)
    \/ insert_private(t)

NextLock ==
    \/ \E t \in Threads : LockCall(t)
    \/ \E t \in Threads : Statement(t)

SpecLock == InitLock /\ [][NextLock]_vars

\* every thread that can run its statement infinitely often runs it: the
\* threads are scheduled fairly and a lock is handed to a thread that waits
SpecLockFair == SpecLock /\ \A t \in Threads : SF_vars(Statement(t))

\* C34: under fair scheduling every call a thread has entered returns: no
\* handler or query waits forever for a shard lock or for the mutex of the
\* current user, and none waits for a lock it holds itself
C34_EveryCallReturns == \A t \in Threads : (pc[t] # "idle") ~> (pc[t] = "idle")

(* ================= the mutex, of several threads at once ============== *)
\* the calls that take the mutex of the current user
NextMutex ==
    \/ \E t \in Threads : CurrentUserCall(t)
    \/ \E t \in Threads, u \in LockIds : UserUpdateCall(t, CurrentUser(u, 1))
    \/ \E t \in Threads : ClearCall(t)
    \/ \E t \in Threads : MessageCreateCall(t, Message(1, 1, 1))
    \/ \E t \in Threads, u \in LockIds :
         ReactionRoom(1, 1, 1) /\ ReactionAddCall(t, 1, 1, 1, u)
    \/ \E t \in Threads : current_user_lock(t)
    \/ \E t \in Threads : current_user_clone(t)
    \/ \E t \in Threads : cache_current_user_lock(t)
    \/ \E t \in Threads : swap_current_user(t)
    \/ \E t \in Threads : clear_channels(t)
    \/ \E t \in Threads : clear_lock(t)
    \/ \E t \in Threads : clear_take(t)
    \/ \E t \in Threads : clear_rest(t)
    \/ \E t \in Threads : entry_messages(t)
    \/ \E t \in Threads : lock_current_user(t)
    \/ \E t \in Threads : clone_current_user(t)
    \/ \E t \in Threads : apply_reaction(t)

SpecMutex == InitVoice /\ [][NextMutex]_vars

\* C35: in every state, a thread that holds the mutex of the current user is
\* inside a call, at a statement that takes no lock, and it holds a shard
\* guard beside the mutex only for the clone of a reaction handler; a thread
\* that has returned holds nothing
C35_MutexIsLeaf ==
    \A t \in Threads :
        /\ MutexGuard \in held[t] => Needs(t) = {} /\ pc[t] # "idle"
        /\ (MutexGuard \in held[t] /\ held[t] # {MutexGuard}) => pc[t] = "clone_current_user"
        /\ pc[t] = "idle" => held[t] = {}

\* a reaction handler holds the mutex inside its messages guard while the
\* other thread, in clear(), waits for the mutex
C35_Witness ==
    \E t, u \in Threads :
        /\ held[t] = {MutexGuard, Guard("messages", 1, "write")}
        /\ pc[u] = "clear_lock"
        /\ 1 \in DOMAIN messages[1]

(* ================ private channels of several threads ================= *)
\* updates.rs ChannelCreate, Channel::Private: the same call of
\* cache_private_channel
ChannelCreateCall(t, private_channel) ==
    /\ guard("CHANNEL_CREATE")
    /\ Call(t, "get_private", [NoFrame EXCEPT !.private_channel = private_channel])

\* updates.rs ChannelDelete, Channel::Private: channels_private.remove(&c.id)
ChannelDeleteCall(t, id) ==
    /\ guard("CHANNEL_DELETE")
    /\ pc[t] = "idle"
    /\ CanWrite("channels_private", id)
    /\ Return(t, [Cache EXCEPT !.channels_private = Del(channels_private, id)])

PrivateChannels == {PrivateChannel(c, n) : c \in LockIds, n \in LockIds}

NextPrivate ==
    \/ \E t \in Threads, p \in PrivateChannels : ChannelCreateCall(t, p)
    \/ \E t \in Threads, p \in PrivateChannels : ChannelUpdateCall(t, p)
    \/ \E t \in Threads, c \in LockIds : ChannelDeleteCall(t, c)
    \/ \E t \in Threads : get_private(t)
    \/ \E t \in Threads : insert_private(t)

SpecPrivate == InitVoice /\ [][NextPrivate]_vars

\* the threads are scheduled fairly and a lock is handed to a thread that waits
SpecPrivateFair ==
    SpecPrivate /\ \A t \in Threads : SF_vars(get_private(t) \/ insert_private(t))

\* C37: under fair scheduling a thread that entered ChannelCreate or
\* ChannelUpdate with a private channel returns, and at its return
\* channels_private holds the record it was called with, also when the id was
\* cached with another record
C37_PrivateChannelReplaced ==
    \A t \in Threads : \A p \in PrivateChannels :
        (pc[t] = "get_private" /\ frame[t].private_channel = p)
            ~> (/\ pc[t] = "idle"
                /\ p.id \in DOMAIN channels_private
                /\ channels_private[p.id] = p)

(* ============ GuildCreate and UnavailableGuild at once ================= *)
\* updates.rs GuildCreate: the guard, then cache_guild(guild)
GuildCreateCall(t, guild) ==
    /\ guard("GUILD_CREATE")
    /\ Call(t, "init_guild", [NoFrame EXCEPT !.guild = guild, !.id = guild.id])

\* lib.rs 536-588: the per-guild sets and the children; every map call takes
\* and drops its own guard, and the calls run here as one statement
init_guild(t) ==
    /\ At(t, "init_guild")
    /\ Step(t, "remove_unavailable", cache_guild_children(Cache, frame[t].guild),
            frame[t], held[t])

\* lib.rs 590: unavailable_guilds.remove(&guild.id)
remove_unavailable(t) ==
    /\ At(t, "remove_unavailable")
    /\ Step(t, "insert_guild_record",
            [Cache EXCEPT !.unavailable_guilds = unavailable_guilds \ {frame[t].id}],
            frame[t], held[t])

\* lib.rs 591: guilds.insert(guild.id, Arc::new(guild))
insert_guild_record(t) ==
    LET guild == frame[t].guild
    IN  /\ At(t, "insert_guild_record")
        /\ Return(t, [Cache EXCEPT !.guilds =
                        Put(guilds, guild.id, [id |-> guild.id, name |-> guild.name])])

\* updates.rs UnavailableGuild: the guard, then the two map calls
UnavailableGuildCall(t, id) ==
    /\ guard("UNAVAILABLE_GUILD")
    /\ Call(t, "remove_guild_record", [NoFrame EXCEPT !.id = id])

\* updates.rs 736: guilds.remove(&self.id)
remove_guild_record(t) ==
    /\ At(t, "remove_guild_record")
    /\ Step(t, "insert_unavailable", [Cache EXCEPT !.guilds = Del(guilds, frame[t].id)],
            frame[t], held[t])

\* updates.rs 737: unavailable_guilds.insert(self.id)
insert_unavailable(t) ==
    /\ At(t, "insert_unavailable")
    /\ Return(t, [Cache EXCEPT !.unavailable_guilds = unavailable_guilds \cup {frame[t].id}])

NextGuildRace ==
    \/ \E t \in Threads, g \in LockIds, n \in LockIds : GuildCreateCall(t, EmptyGuild(g, n))
    \/ \E t \in Threads, g \in LockIds : UnavailableGuildCall(t, g)
    \/ \E t \in Threads : init_guild(t)
    \/ \E t \in Threads : remove_unavailable(t)
    \/ \E t \in Threads : insert_guild_record(t)
    \/ \E t \in Threads : remove_guild_record(t)
    \/ \E t \in Threads : insert_unavailable(t)

SpecGuildRace == InitVoice /\ [][NextGuildRace]_vars

\* every thread has returned from its call
Quiescent == \A t \in Threads : pc[t] = "idle"

\* C38: once GuildCreate and UnavailableGuild handlers that ran at once have
\* all returned, no guild id is both a key of guilds and a member of
\* unavailable_guilds
C38_NeverBoth ==
    Quiescent => \A g \in LockIds : ~(g \in DOMAIN guilds /\ g \in unavailable_guilds)

(* ===================== cache_user of two threads ====================== *)
\* a handler reaches cache_user(user, guild_id), through cache_member (MemberAdd)
CacheUserCall(t, user, guild_id) ==
    Call(t, "get_mut_user", [NoFrame EXCEPT !.user = user, !.id = guild_id])

\* lib.rs 698-705: users.get_mut(&user.id); an equal record gains the guild
get_mut_user(t) ==
    LET user == frame[t].user
    IN  /\ At(t, "get_mut_user")
        /\ IF user.id \in DOMAIN users /\ users[user.id].user = user
           THEN Return(t, cache_user(Cache, user, frame[t].id))
           ELSE Step(t, "insert_user", Cache, frame[t], held[t])

\* lib.rs 706-713: users.insert(user.id, (user, {guild_id}))
insert_user(t) ==
    LET user == frame[t].user
    IN  /\ At(t, "insert_user")
        /\ Return(t, [Cache EXCEPT !.users =
                        Put(users, user.id, [user |-> user, guilds |-> {frame[t].id}])])

NextUserRace ==
    \/ \E t \in Threads, n \in LockIds, g \in LockIds : CacheUserCall(t, User(1, n), g)
    \/ \E t \in Threads : get_mut_user(t)
    \/ \E t \in Threads : insert_user(t)

SpecUserRace == InitVoice /\ [][NextUserRace]_vars

\* C39: a statement of cache_user that leaves a user's record as it was
\* leaves every guild of its set in place, so that calls for one record and
\* the guilds g1 and g2, run at once, end with the set {g1, g2}
C39_GuildsMerged ==
    [][\A u \in DOMAIN users :
          (u \in DOMAIN users' /\ users'[u].user = users[u].user)
              => users[u].guilds \subseteq users'[u].guilds]_vars

(* ================== voice updates of two users at once ================ *)
RaceChannels == {1, 2}

\* thread t applies the updates of user t, all of guild 1
NextVoiceRace ==
    \/ \E t \in Threads, c \in RaceChannels \cup {None} :
         VoiceStateUpdateCall(t, VoiceState(1, c, t))
    \/ \E t \in Threads : cache_voice_state_step(t)

SpecVoiceRace == InitVoice /\ [][NextVoiceRace]_vars

\* the two reverse indices hold exactly the pairs of voice_states
VoiceConsistent ==
    /\ \A c \in DOMAIN voice_state_channels :
          /\ voice_state_channels[c] # {}
          /\ \A k \in voice_state_channels[c] :
                k \in DOMAIN voice_states /\ voice_states[k].channel_id = c
    /\ \A g \in DOMAIN voice_state_guilds :
          /\ voice_state_guilds[g] # {}
          /\ \A u \in voice_state_guilds[g] : <<g, u>> \in DOMAIN voice_states
    /\ \A k \in DOMAIN voice_states :
          /\ voice_states[k].channel_id \in DOMAIN voice_state_channels
          /\ k \in voice_state_channels[voice_states[k].channel_id]
          /\ k[1] \in DOMAIN voice_state_guilds
          /\ k[2] \in voice_state_guilds[k[1]]

\* C36: once every handler has returned, after voice updates of different
\* users ran at once, the voice indices are consistent: a user who joined a
\* channel while its last occupant left is listed under it
C36_VoiceRaceConsistent == Quiescent => VoiceConsistent

(* ======================= the gate of guild caching ==================== *)
\* the categories whose handlers touch the guild record alone
GuildLevel == {"READY", "GUILD_DELETE", "GUILD_UPDATE", "UNAVAILABLE_GUILD"}

====
